---- MODULE Spec2Model ----
(***************************************************************************)
(* Model of the file-format normalisation pipeline of the medical pricing  *)
(* processor: the CSV and JSON record extractors, the deduplicator and the *)
(* batch writer loop of process_csv_file / process_json_file.              *)
(*                                                                         *)
(* Conventions.                                                            *)
(*  - A Python str is a sequence of one-character strings, so that strip,  *)
(*    upper, lower, replace and Decimal parsing are computed character by  *)
(*    character.                                                           *)
(*  - Optional[T] is a sequence of length at most one: None is << >> and a *)
(*    present value v is <<v>>.                                            *)
(*  - A Decimal is its (sign, coefficient, exponent) triple.               *)
(*  - A float is a whole number of cents; float(Decimal) underflows to 0   *)
(*    below the smallest double.                                           *)
(*  - A dict is the sequence of its items in insertion order.              *)
(***************************************************************************)
EXTENDS Integers, Sequences, FiniteSets, TLC

VARIABLES
    \* shared by the harnesses and the file pipeline
    fmt,            \* "csv" or "json"
    mapping,        \* the ColumnMapping of the CSV file
    \* extractor harness: one raw CSV row or JSON item, and what it yields
    row,            \* the raw row (CSV) or item (JSON)
    emitted,        \* the records the extractor returned for it
    xpc,            \* "ready" before the extractor ran, "parsed" after
    \* deduplicator harness
    operations,     \* the argument of _deduplicate_operations
    deduplicated,   \* its return value
    deduplicated_again, \* the return value of a second call, on the first one's
    dpc,            \* "ready" or "done"
    \* process_csv_file / process_json_file
    file,               \* the rows (CSV) or array items (JSON) of the file
    batch_size,         \* self.batch_size
    pc,                 \* the position in the function body
    pos,                \* index of the next row/item of the stream
    pending,            \* operations the running loop still iterates over
    all_operations,     \* all_operations (CSV)
    batch_operations,   \* batch_operations
    successful_records, \* successful_records
    failed_records,     \* failed_records
    errors,             \* errors
    written,            \* the writeBatch calls made: [batch, ok]
    outcome,            \* "running", "returned" or "raised"
    \* DataProcessor.process_file, before the format-specific processor runs
    exists,             \* file_path.exists()
    stem,               \* file_path.stem
    content,            \* the metadata found in the file content
    hospital_metadata,  \* the hospital_metadata argument (None or a dict)
    writer,             \* whether self.writer is configured
    metadata,           \* the metadata process_file goes on with
    facility_writes,    \* the write_hospital calls made: [data, ok]
    \* DataProcessor.process_directory
    directory_exists,   \* directory_path.exists()
    files,              \* the files the glob matched
    max_workers,        \* self.max_workers
    tasks,              \* the state of the task of each file
    valid_results,      \* the list process_directory returns
    gpc,                \* the position in process_directory
    \* column mapper harness
    columns,            \* the header row given to CSVColumnMapper
    patterns,           \* the pattern list given to _find_best_match
    best_match,         \* what _find_best_match returned
    code_groups,        \* what _find_code_columns returned
    mpc,                \* "ready" or "done"
    \* facility id harness
    name_given,         \* the hospital name the id is generated from
    facility_ids,       \* the ids generated so far
    ipc,                \* "ready" or "done"
    \* stream_csv_rows and the loop that consumes it
    csv_lines,          \* the rows csv.reader finds in the file, as cell counts
    skip_metadata_rows, \* the skip_metadata_rows argument
    header,             \* the header row, once read
    line_no,            \* the number of rows taken from csv.reader
    resident,           \* the data rows read and not yet yielded
    handed,             \* the row dicts yielded to the consumer
    rpc                 \* the position in the generator

xvars == <<row, emitted, xpc>>
dvars == <<operations, deduplicated, deduplicated_again, dpc>>
fvars == <<file, batch_size, pc, pos, pending, all_operations, batch_operations,
           successful_records, failed_records, errors, written, outcome>>

hvars == <<exists, stem, content, hospital_metadata, writer, metadata,
           facility_writes>>
gvars == <<directory_exists, files, max_workers, tasks, valid_results, gpc>>
cvars == <<columns, patterns, best_match, code_groups, mpc>>
ivars == <<name_given, facility_ids, ipc>>
rvars == <<csv_lines, skip_metadata_rows, header, line_no, resident, handed, rpc>>
ovars == <<gvars, cvars, ivars, rvars>>
svars == <<hvars, ovars>>

vars == <<fmt, mapping, xvars, dvars, fvars, svars>>

-----------------------------------------------------------------------------
(* Optional values *)

None == << >>
Some(v) == <<v>>
IsNone(o) == o = << >>
Get(o) == o[1]

-----------------------------------------------------------------------------
(* Python str operations, character by character *)

LowerLetters ==
    <<"a","b","c","d","e","f","g","h","i","j","k","l","m",
      "n","o","p","q","r","s","t","u","v","w","x","y","z">>
UpperLetters ==
    <<"A","B","C","D","E","F","G","H","I","J","K","L","M",
      "N","O","P","Q","R","S","T","U","V","W","X","Y","Z">>
Digits == <<"0","1","2","3","4","5","6","7","8","9">>
Whitespace == {" ", "\t"}

IndexIn(c, alphabet) ==
    IF \E i \in 1..Len(alphabet) : alphabet[i] = c
    THEN CHOOSE i \in 1..Len(alphabet) : alphabet[i] = c
    ELSE 0

UpperChar(c) ==
    IF IndexIn(c, LowerLetters) > 0 THEN UpperLetters[IndexIn(c, LowerLetters)] ELSE c
LowerChar(c) ==
    IF IndexIn(c, UpperLetters) > 0 THEN LowerLetters[IndexIn(c, UpperLetters)] ELSE c

\* str.upper()
upper(s) == [i \in 1..Len(s) |-> UpperChar(s[i])]
\* str.lower()
lower(s) == [i \in 1..Len(s) |-> LowerChar(s[i])]

RECURSIVE lstrip(_)
lstrip(s) ==
    IF s # << >> /\ s[1] \in Whitespace THEN lstrip(Tail(s)) ELSE s
RECURSIVE rstrip(_)
rstrip(s) ==
    IF s # << >> /\ s[Len(s)] \in Whitespace
    THEN rstrip(SubSeq(s, 1, Len(s) - 1)) ELSE s
\* str.strip()
strip(s) == rstrip(lstrip(s))

\* str.replace(c, '')
RECURSIVE remove(_, _)
remove(s, c) ==
    IF s = << >> THEN << >>
    ELSE IF s[1] = c THEN remove(Tail(s), c)
    ELSE <<s[1]>> \o remove(Tail(s), c)

\* the characters of the model in code-point order, for str comparison
CodePoints ==
    <<"\t", " ", "$", "'", ",", "-", ".", "/">> \o Digits \o UpperLetters
    \o <<"_">> \o LowerLetters \o <<"|">>

RECURSIVE StrLess(_, _)
StrLess(a, b) ==
    IF b = << >> THEN FALSE
    ELSE IF a = << >> THEN TRUE
    ELSE IF a[1] = b[1] THEN StrLess(Tail(a), Tail(b))
    ELSE IndexIn(a[1], CodePoints) < IndexIn(b[1], CodePoints)

\* str.replace(a, b) for single characters
ReplaceChar(s, a, b) == [i \in 1..Len(s) |-> IF s[i] = a THEN b ELSE s[i]]

\* str.split(sep) for a one-character separator: empty pieces are kept
RECURSIVE SplitOn(_, _)
SplitOn(s, sep) ==
    IF \E i \in 1..Len(s) : s[i] = sep
    THEN LET i == CHOOSE k \in 1..Len(s) :
                     s[k] = sep /\ \A j \in 1..(k - 1) : s[j] # sep
         IN  <<SubSeq(s, 1, i - 1)>> \o SplitOn(SubSeq(s, i + 1, Len(s)), sep)
    ELSE <<s>>

\* sep.join(parts)
RECURSIVE Join(_, _)
Join(parts, sep) ==
    IF parts = << >> THEN << >>
    ELSE IF Len(parts) = 1 THEN parts[1]
    ELSE parts[1] \o sep \o Join(Tail(parts), sep)

IsLetter(c) == IndexIn(c, LowerLetters) > 0 \/ IndexIn(c, UpperLetters) > 0

\* str.title(): a letter is upper-cased after a non-letter and lower-cased
\* after a letter
title(s) ==
    [i \in 1..Len(s) |->
        IF i > 1 /\ IsLetter(s[i - 1]) THEN LowerChar(s[i]) ELSE UpperChar(s[i])]

\* str.isupper(): some cased character and no lower-case one
isupper(s) ==
    /\ \E i \in 1..Len(s) : IndexIn(s[i], UpperLetters) > 0
    /\ \A i \in 1..Len(s) : IndexIn(s[i], LowerLetters) = 0

-----------------------------------------------------------------------------
(* decimal.Decimal and float *)

AllDigits(s) == \A i \in 1..Len(s) : IndexIn(s[i], Digits) > 0

RECURSIVE DigitsValue(_)
DigitsValue(s) ==
    IF s = << >> THEN 0
    ELSE DigitsValue(SubSeq(s, 1, Len(s) - 1)) * 10 + (IndexIn(s[Len(s)], Digits) - 1)

RECURSIVE Pow10(_)
Pow10(n) == IF n <= 0 THEN 1 ELSE 10 * Pow10(n - 1)

RECURSIVE NumDigits(_)
NumDigits(n) == IF n < 10 THEN 1 ELSE 1 + NumDigits(n \div 10)

FirstIndex(s, chars) ==
    IF \E i \in 1..Len(s) : s[i] \in chars
    THEN CHOOSE i \in 1..Len(s) : s[i] \in chars /\ \A j \in 1..(i - 1) : s[j] \notin chars
    ELSE 0

\* Decimal(str): << >> on InvalidOperation, else <<[neg, coef, exp]>>.
\* Grammar: [sign] digits [. digits] [e [sign] digits]; no Infinity/NaN literals.
Decimal(str) ==
    LET signed == str # << >> /\ str[1] \in {"+", "-"}
        neg    == str # << >> /\ str[1] = "-"
        body   == IF signed THEN Tail(str) ELSE str
        epos   == FirstIndex(body, {"e", "E"})
        mant   == IF epos = 0 THEN body ELSE SubSeq(body, 1, epos - 1)
        etxt   == IF epos = 0 THEN << >> ELSE SubSeq(body, epos + 1, Len(body))
        esign  == etxt # << >> /\ etxt[1] \in {"+", "-"}
        eneg   == etxt # << >> /\ etxt[1] = "-"
        edig   == IF esign THEN Tail(etxt) ELSE etxt
        dot    == FirstIndex(mant, {"."})
        intp   == IF dot = 0 THEN mant ELSE SubSeq(mant, 1, dot - 1)
        fracp  == IF dot = 0 THEN << >> ELSE SubSeq(mant, dot + 1, Len(mant))
        okexp  == epos = 0 \/ (edig # << >> /\ AllDigits(edig))
        okmant == AllDigits(intp) /\ AllDigits(fracp) /\ Len(intp) + Len(fracp) > 0
        eval   == IF epos = 0 THEN 0
                  ELSE IF eneg THEN 0 - DigitsValue(edig) ELSE DigitsValue(edig)
    IN  IF okexp /\ okmant
        THEN Some([neg |-> neg, coef |-> DigitsValue(intp \o fracp),
                   exp |-> eval - Len(fracp)])
        ELSE None

\* Decimal > 0
DecimalPositive(d) == d.coef > 0 /\ ~d.neg

\* float(Decimal), in cents.  A decimal whose adjusted exponent is below -324
\* is smaller than half the least subnormal double and rounds to 0.0; a
\* decimal finer than one cent rounds away from zero to the model's grid.
float(d) ==
    LET adjusted == d.exp + NumDigits(d.coef) - 1
        mag == IF d.coef = 0 \/ adjusted < 0 - 324 THEN 0
               ELSE IF d.exp + 2 >= 0 THEN d.coef * Pow10(d.exp + 2)
               ELSE IF d.coef \div Pow10(0 - (d.exp + 2)) = 0 THEN 1
               ELSE d.coef \div Pow10(0 - (d.exp + 2))
    IN  IF d.neg THEN 0 - mag ELSE mag

-----------------------------------------------------------------------------
(* streaming_utils: safe_decimal, is_standardized_code_type *)

S_NA == <<"N","/","A">>
S_NULL == <<"N","U","L","L">>
S_NONE == <<"N","O","N","E">>
S_DASH == <<"-">>
S_CPT == <<"C","P","T">>
S_HCPCS == <<"H","C","P","C","S">>
S_RC == <<"R","C">>
S_REV == <<"R","E","V">>
S_ICD10 == <<"I","C","D","1","0">>
S_ICD_10 == <<"I","C","D","-","1","0">>
S_ICD_10_CM == <<"I","C","D","-","1","0","-","C","M">>
S_ICD_10_PCS == <<"I","C","D","-","1","0","-","P","C","S">>
S_ICD10CM == <<"I","C","D","1","0","C","M">>
S_ICD10PCS == <<"I","C","D","1","0","P","C","S">>
S_unknown == <<"u","n","k","n","o","w","n">>
S_Unknown == <<"U","n","k","n","o","w","n">>
S_outpatient == <<"o","u","t","p","a","t","i","e","n","t">>
S_USD == <<"U","S","D">>

\* safe_decimal(value) for value None or a str: None, or a Decimal > 0
safe_decimal(value) ==
    IF IsNone(value) \/ Get(value) = << >> THEN None
    ELSE LET cleaned == strip(remove(remove(Get(value), "$"), ","))
         IN  IF cleaned = << >> \/ upper(cleaned) \in {S_NA, S_NULL, S_NONE, S_DASH}
             THEN None
             ELSE LET result == Decimal(cleaned)
                  IN  IF IsNone(result) THEN None
                      ELSE IF DecimalPositive(Get(result)) THEN result
                      ELSE None

standardized_types == {S_CPT, S_HCPCS, S_ICD_10, S_ICD_10_CM, S_ICD_10_PCS, S_RC}

is_standardized_code_type(code_type) == upper(code_type) \in standardized_types

-----------------------------------------------------------------------------
(* models.MedicalOperation *)

\* the fields of MedicalOperation in declaration order: pydantic validates
\* them in this order and hands a validator the fields validated before it
MedicalOperationFields ==
    <<"facility_id", "codes", "description", "cash_price", "gross_charge",
      "negotiated_min", "negotiated_max", "currency", "ingested_at">>

\* the keys of `values` when the validator of `field` runs
ValuesOf(field) ==
    {MedicalOperationFields[i] : i \in 1..(IndexIn(field, MedicalOperationFields) - 1)}

\* Field(None, ge=0)
FieldGe0(v) == IsNone(v) \/ Get(v) >= 0

\* @validator('negotiated_min', 'negotiated_max'): TRUE when it does not raise
validate_negotiated_prices(field, price_record) ==
    IF "negotiated_min" \in ValuesOf(field) /\ "negotiated_max" \in ValuesOf(field)
    THEN ~(Get(price_record.negotiated_min) > Get(price_record.negotiated_max))
    ELSE TRUE

\* @validator('currency')
validate_currency(v) ==
    Len(v) = 3 /\ upper(v) = v /\ \E i \in 1..Len(v) : IndexIn(v[i], UpperLetters) > 0

\* MedicalOperation(**price_record).dict(): None when validation raises.
\* price_record.description is None for a null description.
MedicalOperation(price_record) ==
    IF /\ ~IsNone(price_record.description)
       /\ FieldGe0(price_record.cash_price)
       /\ FieldGe0(price_record.gross_charge)
       /\ FieldGe0(price_record.negotiated_min)
       /\ FieldGe0(price_record.negotiated_max)
       /\ validate_negotiated_prices("negotiated_min", price_record)
       /\ validate_negotiated_prices("negotiated_max", price_record)
       /\ validate_currency(price_record.currency)
    THEN Some([facility_id    |-> price_record.facility_id,
               codes          |-> price_record.codes,
               description    |-> Get(price_record.description),
               cash_price     |-> price_record.cash_price,
               gross_charge   |-> price_record.gross_charge,
               negotiated_min |-> price_record.negotiated_min,
               negotiated_max |-> price_record.negotiated_max,
               currency       |-> price_record.currency,
               ingested_at    |-> "utcnow"])
    ELSE None

-----------------------------------------------------------------------------
(* models: Hospital, generate_facility_id, _create_hospital_abbreviation *)

\* mutant: the name is lower-cased but no character is removed
KeepAllChars(s) == s

\* re.sub(r'[^a-z0-9\s-]', '', hospital_name.lower())
RECURSIVE KeepIdChars(_)
KeepIdChars(s) ==
    IF s = << >> THEN << >>
    ELSE IF \/ IndexIn(s[1], LowerLetters) > 0
            \/ IndexIn(s[1], Digits) > 0
            \/ s[1] \in Whitespace
            \/ s[1] = "-"
         THEN <<s[1]>> \o KeepIdChars(Tail(s))
         ELSE KeepIdChars(Tail(s))

\* re.sub(r'\s+', ' ', s): every run of whitespace becomes one space
RECURSIVE CollapseWhitespace(_)
CollapseWhitespace(s) ==
    IF s = << >> THEN << >>
    ELSE IF s[1] \in Whitespace
         THEN IF Len(s) > 1 /\ s[2] \in Whitespace
              THEN CollapseWhitespace(Tail(s))
              ELSE <<" ">> \o CollapseWhitespace(Tail(s))
         ELSE <<s[1]>> \o CollapseWhitespace(Tail(s))

\* str.split(): the maximal runs of non-whitespace characters
RECURSIVE Words(_)
Words(s) ==
    LET t == lstrip(s)
        n == IF \E i \in 1..Len(t) : t[i] \in Whitespace
             THEN (CHOOSE i \in 1..Len(t) :
                      t[i] \in Whitespace /\ \A j \in 1..(i - 1) : t[j] \notin Whitespace) - 1
             ELSE Len(t)
    IN  IF t = << >> THEN << >>
        ELSE <<SubSeq(t, 1, n)>> \o Words(SubSeq(t, n + 1, Len(t)))

\* the dict hospital_mappings, as (word, abbreviation) pairs
hospital_mappings ==
    <<<<<<"b","a","y","l","o","r">>, <<"b","s","w">>>>,
      <<<<"s","c","o","t","t">>, <<"b","s","w">>>>,
      <<<<"w","h","i","t","e">>, <<"b","s","w">>>>,
      <<<<"a","s","c","e","n","s","i","o","n">>, <<"a","s","c">>>>,
      <<<<"s","e","t","o","n">>, <<"a","s","c">>>>,
      <<<<"c","e","d","a","r">>, <<"c","p">>>>,
      <<<<"p","a","r","k">>, <<"c","p">>>>,
      <<<<"r","e","g","i","o","n","a","l">>, <<"r","e","g">>>>,
      <<<<"m","e","d","i","c","a","l">>, <<"m","e","d">>>>,
      <<<<"c","e","n","t","e","r">>, <<"c","t","r">>>>,
      <<<<"h","o","s","p","i","t","a","l">>, <<"h","o","s","p">>>>,
      <<<<"h","e","a","l","t","h">>, <<"h","l","t","h">>>>,
      <<<<"s","y","s","t","e","m">>, <<"s","y","s">>>>,
      <<<<"e","m","e","r","g","e","n","c","y">>, <<"e","r">>>>,
      <<<<"c","a","m","p","u","s">>, <<"c","a","m","p","u","s">>>>,
      <<<<"g","e","o","r","g","e","t","o","w","n">>, <<"g","t","o","w","n">>>>>>

\* one pass of the loop of lines 188-203: the part a word contributes
abbreviation_part(word) ==
    IF \E i \in 1..Len(hospital_mappings) : hospital_mappings[i][1] = word
    THEN hospital_mappings[CHOOSE i \in 1..Len(hospital_mappings) :
                              hospital_mappings[i][1] = word][2]
    ELSE IF Len(word) > 3 THEN SubSeq(word, 1, 4)
    ELSE word

\* the loop of lines 185-203: parts not seen before are appended
RECURSIVE abbreviation_parts(_, _)
abbreviation_parts(words, parts) ==
    IF words = << >> THEN parts
    ELSE LET part == abbreviation_part(Head(words))
         IN  IF \E i \in 1..Len(parts) : parts[i] = part
             THEN abbreviation_parts(Tail(words), parts)
             ELSE abbreviation_parts(Tail(words), Append(parts, part))

\* re.sub(r'-+', '-', s)
RECURSIVE CollapseHyphens(_)
CollapseHyphens(s) ==
    IF s = << >> THEN << >>
    ELSE IF s[1] = "-" /\ Len(s) > 1 /\ s[2] = "-" THEN CollapseHyphens(Tail(s))
    ELSE <<s[1]>> \o CollapseHyphens(Tail(s))

\* str.strip('-')
RECURSIVE StripHyphens(_)
StripHyphens(s) ==
    IF s # << >> /\ s[1] = "-" THEN StripHyphens(Tail(s))
    ELSE IF s # << >> /\ s[Len(s)] = "-" THEN StripHyphens(SubSeq(s, 1, Len(s) - 1))
    ELSE s

\* _create_hospital_abbreviation(hospital_name)
_create_hospital_abbreviation(hospital_name) ==
    LET finish(abbreviation) == StripHyphens(CollapseHyphens(abbreviation))
    IN  finish(Join(abbreviation_parts(
                        Words(CollapseWhitespace(strip(KeepIdChars(lower(hospital_name))))),
                        << >>),
                    <<"-">>))

\* generate_facility_id(hospital_name)
generate_facility_id(hospital_name) == _create_hospital_abbreviation(hospital_name)

\* re.match(r'^[a-z0-9-]+$', v)
MatchesFacilityIdPattern(v) ==
    /\ v # << >>
    /\ \A i \in 1..Len(v) :
         \/ IndexIn(v[i], LowerLetters) > 0
         \/ IndexIn(v[i], Digits) > 0
         \/ v[i] = "-"

\* Hospital.validate_state: a 2-letter uppercase code
validate_state(v) == Len(v) = 2 /\ isupper(v)

\* Hospital(**metadata): TRUE when the model accepts the metadata; the
\* required str fields facility_id, facility_name, city, state must be
\* present (address is Optional) and the validators must pass
HospitalValid(m) ==
    /\ ~IsNone(m.facility_id) /\ MatchesFacilityIdPattern(Get(m.facility_id))
    /\ ~IsNone(m.facility_name)
    /\ ~IsNone(m.city)
    /\ ~IsNone(m.state) /\ validate_state(Get(m.state))

-----------------------------------------------------------------------------
(* csv_processor.CSVProcessor._parse_csv_row_with_mapping *)

\* dict.get(key) of a row dict
RowGet(r, col) == IF col \in DOMAIN r THEN Some(r[col]) ELSE None
\* dict.get(key, '')
RowGetStr(r, col) == IF col \in DOMAIN r THEN r[col] ELSE << >>

\* mutant: the type mapping without its 'CPT' entry
TypeMappingWithoutCpt(code_type_value) ==
    CASE code_type_value = S_HCPCS      -> S_HCPCS
      [] code_type_value = S_RC         -> S_RC
      [] code_type_value = S_REV        -> S_RC
      [] code_type_value = S_ICD10      -> S_ICD_10
      [] code_type_value = S_ICD_10     -> S_ICD_10
      [] code_type_value = S_ICD_10_CM  -> S_ICD_10_CM
      [] code_type_value = S_ICD_10_PCS -> S_ICD_10_PCS
      [] code_type_value = S_ICD10CM    -> S_ICD_10_CM
      [] code_type_value = S_ICD10PCS   -> S_ICD_10_PCS
      [] OTHER -> code_type_value

\* type_mapping.get(code_type_value, code_type_value)
csv_type_mapping(code_type_value) ==
    CASE code_type_value = S_CPT        -> S_HCPCS
      [] code_type_value = S_HCPCS      -> S_HCPCS
      [] code_type_value = S_RC         -> S_RC
      [] code_type_value = S_REV        -> S_RC
      [] code_type_value = S_ICD10      -> S_ICD_10
      [] code_type_value = S_ICD_10     -> S_ICD_10
      [] code_type_value = S_ICD_10_CM  -> S_ICD_10_CM
      [] code_type_value = S_ICD_10_PCS -> S_ICD_10_PCS
      [] code_type_value = S_ICD10CM    -> S_ICD_10_CM
      [] code_type_value = S_ICD10PCS   -> S_ICD_10_PCS
      [] OTHER -> code_type_value

\* codes[code_type].append(code_value), creating the list when the key is new
AppendCode(codes, code_type, code_value) ==
    IF \E i \in 1..Len(codes) : codes[i].type = code_type
    THEN [i \in 1..Len(codes) |->
            IF codes[i].type = code_type
            THEN [codes[i] EXCEPT !.codes = Append(@, code_value)]
            ELSE codes[i]]
    ELSE Append(codes, [type |-> code_type, codes |-> <<code_value>>])

\* the code type of one code group (lines 116-135)
csv_code_type(r, code_group) ==
    IF IsNone(code_group.type) THEN S_unknown
    ELSE LET code_type_value == upper(strip(RowGetStr(r, Get(code_group.type))))
         IN  IF code_type_value = << >> THEN S_unknown
             ELSE csv_type_mapping(code_type_value)

\* the loop over mapping.code_columns (lines 104-141)
RECURSIVE csv_extract_codes(_, _, _)
csv_extract_codes(r, code_columns, codes) ==
    IF code_columns = << >> THEN codes
    ELSE LET code_group == Head(code_columns)
             code_value == strip(RowGetStr(r, Get(code_group.code)))
             code_type  == csv_code_type(r, code_group)
         IN  IF IsNone(code_group.code)
             THEN csv_extract_codes(r, Tail(code_columns), codes)
             ELSE IF code_value = << >> \/ upper(code_value) \in {S_NA, S_NULL, S_NONE}
             THEN csv_extract_codes(r, Tail(code_columns), codes)
             ELSE IF is_standardized_code_type(code_type)
             THEN csv_extract_codes(r, Tail(code_columns),
                                    AppendCode(codes, code_type, code_value))
             ELSE csv_extract_codes(r, Tail(code_columns), codes)

\* safe_decimal(row.get(column)) when the field is mapped, else None
csv_price(r, column) ==
    IF IsNone(column) THEN None ELSE safe_decimal(RowGet(r, Get(column)))

\* float(x) if x else None
FloatOrNone(x) == IF IsNone(x) THEN None ELSE Some(float(Get(x)))

\* lines 167-172
csv_description(r, m) ==
    IF IsNone(m.description) THEN S_Unknown
    ELSE LET desc_value == strip(RowGetStr(r, Get(m.description)))
         IN  IF desc_value # << >> THEN desc_value ELSE S_Unknown

\* mutant: the setting is lowercased but not trimmed
SettingWithoutStrip(r, m) ==
    IF IsNone(m.setting) THEN None
    ELSE Some(lower(RowGetStr(r, Get(m.setting))))

\* lines 174-177: None, or the trimmed lowercased setting
csv_setting(r, m) ==
    IF IsNone(m.setting) THEN None
    ELSE Some(lower(strip(RowGetStr(r, Get(m.setting)))))

\* the truth value of an Optional[str]
Truthy(s) == ~IsNone(s) /\ Get(s) # << >>

\* _parse_csv_row_with_mapping(row, facility_id, mapping): None or an operation
_parse_csv_row_with_mapping(r, facility_id, m) ==
    LET codes          == csv_extract_codes(r, m.code_columns, << >>)
        cash_price     == csv_price(r, m.cash_price)
        gross_charge   == csv_price(r, m.gross_charge)
        negotiated_min == csv_price(r, m.min_negotiated)
        negotiated_max == csv_price(r, m.max_negotiated)
        setting        == csv_setting(r, m)
    IN  IF codes = << >> THEN None
        ELSE IF IsNone(cash_price) THEN None
        ELSE IF Truthy(setting) /\ Get(setting) # S_outpatient THEN None
        ELSE MedicalOperation(
                [facility_id    |-> facility_id,
                 codes          |-> codes,
                 description    |-> Some(csv_description(r, m)),
                 cash_price     |-> Some(float(Get(cash_price))),
                 gross_charge   |-> FloatOrNone(gross_charge),
                 negotiated_min |-> FloatOrNone(negotiated_min),
                 negotiated_max |-> FloatOrNone(negotiated_max),
                 currency       |-> S_USD])

-----------------------------------------------------------------------------
(* json_processor.JSONProcessor._parse_json_item *)

\* JSON values as the streaming parser yields them: a str, a number (Decimal)
\* or null
ZeroDecimal == [neg |-> FALSE, coef |-> 0, exp |-> 0]
JStr(s) == [k |-> "str", s |-> s, d |-> ZeroDecimal]
JNum(d) == [k |-> "num", s |-> << >>, d |-> d]
JNull == [k |-> "null", s |-> << >>, d |-> ZeroDecimal]

\* float(v) of a JSON value: None when it raises (TypeError on null,
\* ValueError on a non-numeric str)
PyFloat(v) ==
    CASE v.k = "num"  -> Some(float(v.d))
      [] v.k = "str"  -> LET convert(parsed) ==
                                 IF IsNone(parsed) THEN None ELSE Some(float(Get(parsed)))
                         IN  convert(Decimal(strip(v.s)))
      [] v.k = "null" -> None

\* _extract_setting_from_item: [raised, value]; value is None or the trimmed
\* lowercased setting; .strip() raises on a value that is not a str
_extract_setting_from_item(item) ==
    IF item.standard_charges # << >>
    THEN LET charge  == item.standard_charges[1]
             raw     == IF IsNone(charge.setting) THEN JStr(<< >>) ELSE Get(charge.setting)
             setting == lower(strip(raw.s))
         IN  IF raw.k # "str" THEN [raised |-> TRUE, value |-> None]
             ELSE [raised |-> FALSE,
                   value |-> IF setting # << >> THEN Some(setting) ELSE None]
    ELSE [raised |-> FALSE, value |-> None]

\* one `if key in charge: prices[...] = float(charge[key])`
json_price(field) ==
    IF IsNone(field) THEN [raised |-> FALSE, value |-> None]
    ELSE LET assign(value) == [raised |-> IsNone(value), value |-> value]
         IN  assign(PyFloat(Get(field)))

\* _extract_prices_from_item: [raised, cash_price, gross_charge, negotiated_min,
\* negotiated_max]
_extract_prices_from_item(item) ==
    IF item.standard_charges # << >>
    THEN LET charge == item.standard_charges[1]
             prices(cash, gross, min, max) ==
                 [raised |-> cash.raised \/ gross.raised \/ min.raised \/ max.raised,
                  cash_price |-> cash.value, gross_charge |-> gross.value,
                  negotiated_min |-> min.value, negotiated_max |-> max.value]
         IN  prices(json_price(charge.discounted_cash),
                    json_price(charge.gross_charge),
                    json_price(charge.minimum),
                    json_price(charge.maximum))
    ELSE [raised |-> FALSE, cash_price |-> None, gross_charge |-> None,
          negotiated_min |-> None, negotiated_max |-> None]

\* _extract_codes_from_item: None when code_type.upper() raises, else the list
\* of {code_type, code} of the standardized types
RECURSIVE json_code_infos(_, _)
json_code_infos(code_info, codes) ==
    IF code_info = << >> THEN Some(codes)
    ELSE LET code_data == Head(code_info)
             code_type == IF IsNone(code_data.type) THEN JStr(S_unknown)
                          ELSE Get(code_data.type)
             code      == IF IsNone(code_data.code) THEN JStr(<< >>)
                          ELSE Get(code_data.code)
         IN  IF code_type.k # "str" THEN None
             ELSE IF is_standardized_code_type(code_type.s)
             THEN json_code_infos(Tail(code_info),
                     Append(codes, [code_type |-> code_type.s, code |-> code]))
             ELSE json_code_infos(Tail(code_info), codes)

_extract_codes_from_item(item) == json_code_infos(item.code_information, << >>)

\* lines 123-125
json_normalize_code_type(code_type) ==
    IF upper(code_type) = S_CPT THEN S_HCPCS ELSE code_type

\* the loop of lines 114-129 over the extracted code infos; a code is a str or
\* null (a null or empty code is skipped by `if not code_info.get("code")`)
RECURSIVE json_codes_dict(_, _)
json_codes_dict(infos, codes_dict) ==
    IF infos = << >> THEN codes_dict
    ELSE LET code_info == Head(infos)
         IN  IF code_info.code.k # "str" \/ code_info.code.s = << >>
             THEN json_codes_dict(Tail(infos), codes_dict)
             ELSE json_codes_dict(Tail(infos),
                     AppendCode(codes_dict,
                                json_normalize_code_type(code_info.code_type),
                                code_info.code.s))

\* item.get("description", ""): None for a null description
json_description(item) ==
    IF IsNone(item.description) THEN Some(<< >>)
    ELSE IF Get(item.description).k = "str" THEN Some(Get(item.description).s)
    ELSE None

\* _parse_json_item(item, facility_id): the list of operations, of length 0 or 1
_parse_json_item(item, facility_id) ==
    IF ~item.isdict THEN << >>
    ELSE
    LET build(prices, codes_dict) ==
            IF codes_dict = << >> THEN << >>
            ELSE MedicalOperation(
                    [facility_id    |-> facility_id,
                     codes          |-> codes_dict,
                     description    |-> json_description(item),
                     cash_price     |-> prices.cash_price,
                     gross_charge   |-> prices.gross_charge,
                     negotiated_min |-> prices.negotiated_min,
                     negotiated_max |-> prices.negotiated_max,
                     currency       |-> S_USD])
        parse(setting, prices, infos) ==
            IF setting.raised THEN << >>
            ELSE IF ~IsNone(setting.value) /\ Get(setting.value) # S_outpatient THEN << >>
            ELSE IF prices.raised THEN << >>
            ELSE IF IsNone(prices.cash_price) \/ Get(prices.cash_price) <= 0 THEN << >>
            ELSE IF IsNone(infos) THEN << >>
            ELSE build(prices, json_codes_dict(Get(infos), << >>))
    IN  parse(_extract_setting_from_item(item),
              _extract_prices_from_item(item),
              _extract_codes_from_item(item))

-----------------------------------------------------------------------------
(* Extractor harness: one raw row or item is drawn and parsed *)

FacilityId == "123-knee-center"

\* the columns of the CSV header row
Col_description == "description"
Col_code1 == "code|1"
Col_type1 == "code|1|type"
Col_code2 == "code|2"
Col_type2 == "code|2|type"
Col_cash == "standard_charge|discounted_cash"
Col_gross == "standard_charge|gross"
Col_min == "standard_charge|min"
Col_max == "standard_charge|max"
Col_setting == "setting"

\* the mapping the column mapper builds for that header
FullMapping ==
    [description    |-> Some(Col_description),
     cash_price     |-> Some(Col_cash),
     gross_charge   |-> Some(Col_gross),
     min_negotiated |-> Some(Col_min),
     max_negotiated |-> Some(Col_max),
     setting        |-> Some(Col_setting),
     code_columns   |-> <<[code |-> Some(Col_code1), type |-> Some(Col_type1)],
                          [code |-> Some(Col_code2), type |-> Some(Col_type2)]>>]

\* mappings of headers that lack the cash, the setting or a code-type column
CsvMappings ==
    { FullMapping,
      [FullMapping EXCEPT !.cash_price = None],
      [FullMapping EXCEPT !.setting = None],
      [FullMapping EXCEPT !.code_columns[1].type = None] }

CsvDescriptions == {<<" ","K","n","e","e"," ","M","R","I"," ">>, << >>}
CsvCodes1 == {<<" ","7","0","5","5","1"," ">>, <<"n","/","a">>}
CsvTypes1 == {<<"C","P","T">>, <<" ","c","p","t"," ">>, <<"h","c","p","c","s">>, <<"R","E","V">>, <<"I","C","D","1","0">>, <<"C","D","M">>, << >>}
CsvCodes2 == {<<"0","4","5","0">>, << >>}
CsvTypes2 == {<<"R","C">>, <<"C","P","T">>}
CsvCash == {<< >>, <<"$","1",",","4","5","0",".","0","0">>, <<"0">>, <<"-","5">>, <<"a","b","c">>, <<"N","/","A">>, <<"1","e","-","4","0","0">>}
CsvGross == {<<"2",",","0","0","0">>}
CsvMin == {<< >>, <<"1","0","0">>, <<"3","0","0">>}
CsvMax == {<< >>, <<"2","0","0">>}
CsvSettings == {<< >>, <<" ">>, <<"o","u","t","p","a","t","i","e","n","t">>, <<" ","O","u","t","p","a","t","i","e","n","t"," ">>, <<"i","n","p","a","t","i","e","n","t">>}

CsvColumns ==
    {Col_description, Col_code1, Col_type1, Col_code2, Col_type2, Col_cash,
     Col_gross, Col_min, Col_max, Col_setting}

\* the row dict of stream_csv_rows for one line of cells
MakeRow(d, c1, t1, c2, t2, cash, gross, mn, mx, st) ==
    [c \in CsvColumns |->
         CASE c = Col_description -> d
           [] c = Col_code1 -> c1
           [] c = Col_type1 -> t1
           [] c = Col_code2 -> c2
           [] c = Col_type2 -> t2
           [] c = Col_cash -> cash
           [] c = Col_gross -> gross
           [] c = Col_min -> mn
           [] c = Col_max -> mx
           [] c = Col_setting -> st]

CsvRows ==
    { MakeRow(d, c1, t1, c2, t2, cash, gross, mn, mx, st) :
      d \in CsvDescriptions, c1 \in CsvCodes1, t1 \in CsvTypes1, c2 \in CsvCodes2,
      t2 \in CsvTypes2, cash \in CsvCash, gross \in CsvGross, mn \in CsvMin,
      mx \in CsvMax, st \in CsvSettings }

\* JSON items
Dec(coef, exp) == [neg |-> FALSE, coef |-> coef, exp |-> exp]
Neg(coef, exp) == [neg |-> TRUE, coef |-> coef, exp |-> exp]

JsonDescriptions == {None, Some(JStr(<<"K","n","e","e"," ","M","R","I">>)), Some(JNull)}
JsonTypes1 ==
    {None, Some(JNull)} \cup {Some(JStr(t)) : t \in {<<"C","P","T">>, <<"c","p","t">>, <<"h","c","p","c","s">>, <<"R","C">>, <<"C","D","M">>}}
JsonCodes1 == {Some(JStr(c)) : c \in {<<"7","0","5","5","1">>, << >>}}
JsonSecondCodes ==
    { << >>,
      <<[type |-> Some(JStr(S_RC)), code |-> Some(JStr(<<"0","4","5","0">>))]>>,
      <<[type |-> Some(JStr(S_CPT)), code |-> Some(JStr(<<"0","4","5","0">>))]>> }
JsonCodeInformation ==
    { <<[type |-> t, code |-> c]>> \o rest :
        t \in JsonTypes1, c \in JsonCodes1, rest \in JsonSecondCodes }
JsonCash ==
    { None, Some(JNum(Dec(45000, 0 - 2))), Some(JNum(Dec(0, 0))), Some(JNum(Neg(5, 0))),
      Some(JStr(<<"a","b","c">>)), Some(JNull), Some(JNum(Dec(1, 0 - 400))) }
JsonGross == { None, Some(JNum(Dec(1000, 0))), Some(JNum(Neg(5, 0))) }
JsonMin == { None, Some(JNum(Dec(100, 0))), Some(JNum(Dec(300, 0))) }
JsonMax == { None, Some(JNum(Dec(200, 0))) }
JsonSettings ==
    { None, Some(JNull) } \cup { Some(JStr(st)) : st \in CsvSettings }
JsonCharges ==
    { [discounted_cash |-> cash, gross_charge |-> gross, minimum |-> mn,
       maximum |-> mx, setting |-> st] :
      cash \in JsonCash, gross \in JsonGross, mn \in JsonMin, mx \in JsonMax,
      st \in JsonSettings }
NonDictItem ==
    [isdict |-> FALSE, description |-> None, code_information |-> << >>,
     standard_charges |-> << >>]
JsonItems ==
    { [isdict |-> TRUE, description |-> d, code_information |-> ci,
       standard_charges |-> sc] :
      d \in JsonDescriptions, ci \in JsonCodeInformation,
      sc \in {<< >>} \cup {<<ch>> : ch \in JsonCharges} }
    \cup {NonDictItem}

\* the file pipeline is not running
FileIdle ==
    /\ file = << >>
    /\ batch_size = 1
    /\ pc = "idle"
    /\ pos = 1
    /\ pending = << >>
    /\ all_operations = << >>
    /\ batch_operations = << >>
    /\ successful_records = 0
    /\ failed_records = 0
    /\ errors = << >>
    /\ written = << >>
    /\ outcome = "idle"

\* the process_file preamble is not running
ProcessFileIdle ==
    /\ exists = TRUE
    /\ stem = << >>
    /\ content = << >>
    /\ hospital_metadata = None
    /\ writer = FALSE
    /\ metadata = << >>
    /\ facility_writes = << >>

\* process_directory is not running
DirectoryIdle ==
    /\ directory_exists = TRUE
    /\ files = << >>
    /\ max_workers = 1
    /\ tasks = << >>
    /\ valid_results = << >>
    /\ gpc = "idle"

\* the column mapper harness is not running
MapperIdle ==
    /\ columns = << >>
    /\ patterns = << >>
    /\ best_match = << >>
    /\ code_groups = << >>
    /\ mpc = "idle"

\* the facility id harness is not running
FacilityIdIdle ==
    /\ name_given = << >>
    /\ facility_ids = << >>
    /\ ipc = "idle"

\* stream_csv_rows is not running
ReaderIdle ==
    /\ csv_lines = << >>
    /\ skip_metadata_rows = 0
    /\ header = << >>
    /\ line_no = 0
    /\ resident = << >>
    /\ handed = << >>
    /\ rpc = "idle"

InitExtract ==
    /\ fmt \in {"csv", "json"}
    /\ mapping \in (IF fmt = "csv" THEN CsvMappings ELSE {FullMapping})
    /\ row \in (IF fmt = "csv" THEN CsvRows ELSE JsonItems)
    /\ emitted = << >>
    /\ xpc = "ready"
    /\ operations = << >>
    /\ deduplicated = << >>
    /\ deduplicated_again = << >>
    /\ dpc = "idle"
    /\ FileIdle
    /\ ProcessFileIdle
    /\ DirectoryIdle
    /\ MapperIdle
    /\ FacilityIdIdle
    /\ ReaderIdle

\* the CSV extractor applied to the row
ParseCsvRow ==
    /\ xpc = "ready"
    /\ fmt = "csv"
    /\ emitted' = _parse_csv_row_with_mapping(row, FacilityId, mapping)
    /\ xpc' = "parsed"
    /\ UNCHANGED <<fmt, mapping, row, dvars, fvars, svars>>

\* the JSON extractor applied to the item
ParseJsonItem ==
    /\ xpc = "ready"
    /\ fmt = "json"
    /\ emitted' = _parse_json_item(row, FacilityId)
    /\ xpc' = "parsed"
    /\ UNCHANGED <<fmt, mapping, row, dvars, fvars, svars>>

NextExtract == ParseCsvRow \/ ParseJsonItem

SpecExtract == InitExtract /\ [][NextExtract]_vars

-----------------------------------------------------------------------------
(* Properties of the extractors (SpecExtract) *)

Range(f) == {f[i] : i \in DOMAIN f}

StandardTags == {S_HCPCS, S_RC, S_ICD_10, S_ICD_10_CM, S_ICD_10_PCS}

\* the raw setting of the drawn row/item as a JSON value, None when the item has
\* no setting field or the setting column is unmapped
RawSetting ==
    IF fmt = "csv"
    THEN IF IsNone(mapping.setting) THEN None
         ELSE Some(JStr(row[Get(mapping.setting)]))
    ELSE IF row.isdict /\ row.standard_charges # << >>
         THEN row.standard_charges[1].setting
         ELSE None

SettingBlankOrAbsent ==
    IsNone(RawSetting) \/ (Get(RawSetting).k = "str" /\ strip(Get(RawSetting).s) = << >>)

SettingNotOutpatient ==
    /\ ~IsNone(RawSetting)
    /\ Get(RawSetting).k = "str"
    /\ lower(strip(Get(RawSetting).s)) # << >>
    /\ lower(strip(Get(RawSetting).s)) # S_outpatient

\* the row/item keeps at least one standardized code
PassesCodeGate ==
    IF fmt = "csv"
    THEN csv_extract_codes(row, mapping.code_columns, << >>) # << >>
    ELSE /\ row.isdict
         /\ ~IsNone(_extract_codes_from_item(row))
         /\ json_codes_dict(Get(_extract_codes_from_item(row)), << >>) # << >>

\* the row/item has a positive cash price
PassesCashGate ==
    IF fmt = "csv"
    THEN ~IsNone(csv_price(row, mapping.cash_price))
    ELSE /\ row.isdict
         /\ ~_extract_prices_from_item(row).raised
         /\ ~IsNone(_extract_prices_from_item(row).cash_price)
         /\ Get(_extract_prices_from_item(row).cash_price) > 0

\* the remaining fields of the item are accepted by MedicalOperation
PassesValidation ==
    fmt = "json" =>
        /\ ~IsNone(json_description(row))
        /\ FieldGe0(_extract_prices_from_item(row).gross_charge)
        /\ FieldGe0(_extract_prices_from_item(row).negotiated_min)
        /\ FieldGe0(_extract_prices_from_item(row).negotiated_max)

\* C4 (no-empty-codes invariant): every record emitted by either extractor has
\* a non-empty codes mapping whose keys are all among HCPCS, RC, ICD-10,
\* ICD-10-CM, ICD-10-PCS, whatever the spelling of the input code types.
C4_NoEmptyCodes ==
    xpc = "parsed" =>
        \A k \in 1..Len(emitted) :
            /\ emitted[k].codes # << >>
            /\ \A i \in 1..Len(emitted[k].codes) :
                 /\ emitted[k].codes[i].type \in StandardTags
                 /\ emitted[k].codes[i].codes # << >>

\* C5 (negotiated range): every emitted record with both bounds present has
\* negotiated_min <= negotiated_max, rows with min > max being rejected.
C5_NegotiatedRange ==
    xpc = "parsed" =>
        \A k \in 1..Len(emitted) :
            (~IsNone(emitted[k].negotiated_min) /\ ~IsNone(emitted[k].negotiated_max))
                => Get(emitted[k].negotiated_min) <= Get(emitted[k].negotiated_max)

\* the raw cash price is absent, unparseable, zero or negative
RawCashUnusable ==
    IF fmt = "csv"
    THEN \/ IsNone(mapping.cash_price)
         \/ LET d == Decimal(strip(remove(remove(row[Get(mapping.cash_price)], "$"), ",")))
            IN  IsNone(d) \/ Get(d).coef = 0 \/ Get(d).neg
    ELSE \/ ~row.isdict
         \/ row.standard_charges = << >>
         \/ IsNone(row.standard_charges[1].discounted_cash)
         \/ LET v == Get(row.standard_charges[1].discounted_cash)
            IN  \/ v.k = "null"
                \/ (v.k = "str" /\ IsNone(Decimal(strip(v.s))))
                \/ (v.k = "num" /\ (v.d.coef = 0 \/ v.d.neg))

\* C6 (cash-price gate): a row/item whose cash price is absent, unparseable,
\* zero or negative is never emitted, and every emitted record has
\* cash_price > 0.
C6_CashPriceGate ==
    xpc = "parsed" =>
        /\ RawCashUnusable => emitted = << >>
        /\ \A k \in 1..Len(emitted) :
             ~IsNone(emitted[k].cash_price) /\ Get(emitted[k].cash_price) > 0

CptCodes ==
    IF fmt = "csv"
    THEN { strip(row[Get(mapping.code_columns[g].code)]) :
             g \in { h \in 1..Len(mapping.code_columns) :
                       /\ ~IsNone(mapping.code_columns[h].type)
                       /\ upper(strip(row[Get(mapping.code_columns[h].type)])) = S_CPT
                       /\ strip(row[Get(mapping.code_columns[h].code)]) # << >>
                       /\ upper(strip(row[Get(mapping.code_columns[h].code)]))
                             \notin {S_NA, S_NULL, S_NONE} } }
    ELSE { Get(row.code_information[g].code).s :
             g \in { h \in 1..Len(row.code_information) :
                       /\ ~IsNone(row.code_information[h].type)
                       /\ Get(row.code_information[h].type).k = "str"
                       /\ upper(Get(row.code_information[h].type).s) = S_CPT
                       /\ ~IsNone(row.code_information[h].code)
                       /\ Get(row.code_information[h].code).k = "str"
                       /\ Get(row.code_information[h].code).s # << >> } }

\* C8 (CPT folds into HCPCS): in every emitted record no code-type key is "CPT"
\* and every input code of raw type CPT is listed under the key "HCPCS".
C8_CptFoldsIntoHcpcs ==
    xpc = "parsed" =>
        \A k \in 1..Len(emitted) :
            /\ \A i \in 1..Len(emitted[k].codes) : emitted[k].codes[i].type # S_CPT
            /\ \A c \in CptCodes :
                 \E i \in 1..Len(emitted[k].codes) :
                    /\ emitted[k].codes[i].type = S_HCPCS
                    /\ c \in Range(emitted[k].codes[i].codes)

C8_Witness ==
    /\ xpc = "parsed"
    /\ emitted # << >>
    /\ Cardinality(CptCodes) = 2

-----------------------------------------------------------------------------
(* csv_processor.CSVProcessor._deduplicate_operations, _select_best_operation *)

\* tuple comparison of two (type, [codes]) items of a codes dict: the keys of a
\* dict differ, so the first components decide
ItemLess(a, b) == StrLess(a.type, b.type)

\* sorted(codes.items())
RECURSIVE InsertItem(_, _)
InsertItem(sorted, item) ==
    IF sorted = << >> THEN <<item>>
    ELSE IF ItemLess(item, Head(sorted)) THEN <<item>> \o sorted
    ELSE <<Head(sorted)>> \o InsertItem(Tail(sorted), item)
RECURSIVE SortedItems(_)
SortedItems(codes) ==
    IF codes = << >> THEN << >>
    ELSE InsertItem(SortedItems(SubSeq(codes, 1, Len(codes) - 1)), codes[Len(codes)])

\* the group key of lines 258-262: description '|' str(sorted(codes.items())),
\* kept as the pair of its two parts
GroupKey(operation) == <<operation.description, SortedItems(operation.codes)>>

\* the gross charges, in cents, from 5000.10 to 5009.90 in steps of 0.10 whose
\* score 500 + gross_charge * 0.1, computed in double precision, is greater
\* (smaller) than the score 1000 + cash_price of the cash price that ties with
\* it in exact arithmetic; the gross charges of the harnesses outside that
\* range (7000.00, 10000.00) tie exactly
GrossScoreRoundedUp ==
    { 500060, 500110, 500130, 500150, 500160, 500170, 500180, 500310, 500360, 500380,
      500400, 500410, 500420, 500430, 500560, 500610, 500630, 500650, 500660, 500670,
      500680, 500810, 500860, 500880, 500900, 500910, 500920, 500930 }
GrossScoreRoundedDown ==
    { 500070, 500090, 500320, 500340, 500570, 500590, 500820, 500840 }

\* the score of lines 310-322, in fortieths of a cent: four times the exact
\* score in tenths of a cent, plus or minus one where the double-precision
\* value of 500 + gross_charge * 0.1 lies above or below it
Score(operation) ==
    IF ~IsNone(operation.cash_price)
    THEN 4 * (10 * (1000 * 100 + Get(operation.cash_price)))
    ELSE IF ~IsNone(operation.gross_charge)
    THEN 4 * (10 * (500 * 100) + Get(operation.gross_charge))
         + (IF Get(operation.gross_charge) \in GrossScoreRoundedUp THEN 1
            ELSE IF Get(operation.gross_charge) \in GrossScoreRoundedDown THEN 0 - 1
            ELSE 0)
    ELSE 0

\* the last operation of maximal score
LastBestIndex(ops) ==
    CHOOSE i \in 1..Len(ops) :
        /\ \A j \in 1..Len(ops) : Score(ops[j]) <= Score(ops[i])
        /\ \A j \in (i + 1)..Len(ops) : Score(ops[j]) < Score(ops[i])

\* scored_operations.sort(key=score, reverse=True)[0]: the sort is stable, so
\* the first operation of maximal score
BestIndex(ops) ==
    CHOOSE i \in 1..Len(ops) :
        /\ \A j \in 1..Len(ops) : Score(ops[j]) <= Score(ops[i])
        /\ \A j \in 1..(i - 1) : Score(ops[j]) < Score(ops[i])

SetMin(S) == CHOOSE x \in S : \A y \in S : x <= y
SetMax(S) == CHOOSE x \in S : \A y \in S : y <= x

\* the non-null values of a field over the group
FieldValues(ops, f) == { Get(ops[i][f]) : i \in { j \in 1..Len(ops) : ~IsNone(ops[j][f]) } }

\* mutant: the best operation keeps its own negotiated range
SelectBestWithoutMerge(ops) == ops[BestIndex(ops)]

\* _select_best_operation(operations) for a non-empty group
_select_best_operation(ops) ==
    LET best_operation == ops[BestIndex(ops)]
        negotiated_min_values == FieldValues(ops, "negotiated_min")
        negotiated_max_values == FieldValues(ops, "negotiated_max")
    IN  [best_operation EXCEPT
            !.negotiated_min = IF negotiated_min_values # {}
                               THEN Some(SetMin(negotiated_min_values)) ELSE @,
            !.negotiated_max = IF negotiated_max_values # {}
                               THEN Some(SetMax(negotiated_max_values)) ELSE @]

\* mutant: a new group is put in front of the groups seen before it
RECURSIVE GroupOperationsNewestFirst(_, _)
GroupOperationsNewestFirst(ops, groups) ==
    IF ops = << >> THEN groups
    ELSE LET operation == Head(ops)
             key == <<operation.description, SortedItems(operation.codes)>>
         IN  IF \E g \in 1..Len(groups) : groups[g].key = key
             THEN GroupOperationsNewestFirst(Tail(ops),
                    [g \in 1..Len(groups) |->
                        IF groups[g].key = key
                        THEN [groups[g] EXCEPT !.ops = Append(@, operation)]
                        ELSE groups[g]])
             ELSE GroupOperationsNewestFirst(Tail(ops),
                    <<[key |-> key, ops |-> <<operation>>]>> \o groups)

\* the grouping loop of lines 254-266: the groups in first-seen order of their key
RECURSIVE GroupOperations(_, _)
GroupOperations(ops, groups) ==
    IF ops = << >> THEN groups
    ELSE LET operation == Head(ops)
             key == GroupKey(operation)
         IN  IF \E g \in 1..Len(groups) : groups[g].key = key
             THEN GroupOperations(Tail(ops),
                    [g \in 1..Len(groups) |->
                        IF groups[g].key = key
                        THEN [groups[g] EXCEPT !.ops = Append(@, operation)]
                        ELSE groups[g]])
             ELSE GroupOperations(Tail(ops),
                    Append(groups, [key |-> key, ops |-> <<operation>>]))

\* _deduplicate_operations(operations)
_deduplicate_operations(ops) ==
    LET groups == GroupOperations(ops, << >>)
    IN  [g \in 1..Len(groups) |->
            IF Len(groups[g].ops) = 1 THEN groups[g].ops[1]
            ELSE _select_best_operation(groups[g].ops)]

-----------------------------------------------------------------------------
(* Deduplicator harness: a list of operation dicts is drawn and deduplicated *)

MaxOps == 3

DedupDescriptions == {<<"K","n","e","e"," ","M","R","I">>, <<"X","-","r","a","y">>}
DedupCodes == { <<[type |-> S_HCPCS, codes |-> <<<<"7","0","5","5","1">>>>]>> }
\* (cash_price, gross_charge), in cents
DedupPrices ==
    { <<Some(5000), None>>, <<Some(60000), None>>, <<None, Some(1000000)>> }
\* (negotiated_min, negotiated_max), in cents
DedupRanges ==
    { <<Some(10000), Some(20000)>>, <<Some(25000), Some(30000)>>,
      <<Some(25000), None>>, <<None, Some(15000)>> }

DedupOperations ==
    { [facility_id    |-> FacilityId,
       codes          |-> c,
       description    |-> d,
       cash_price     |-> p[1],
       gross_charge   |-> p[2],
       negotiated_min |-> r[1],
       negotiated_max |-> r[2],
       currency       |-> S_USD,
       ingested_at    |-> "utcnow"] :
      d \in DedupDescriptions, c \in DedupCodes, p \in DedupPrices, r \in DedupRanges }

InitDedup ==
    /\ operations \in UNION { [1..n -> DedupOperations] : n \in 0..MaxOps }
    /\ deduplicated = << >>
    /\ deduplicated_again = << >>
    /\ dpc = "ready"
    /\ fmt = "csv"
    /\ mapping = FullMapping
    /\ row = << >>
    /\ emitted = << >>
    /\ xpc = "idle"
    /\ FileIdle
    /\ ProcessFileIdle
    /\ DirectoryIdle
    /\ MapperIdle
    /\ FacilityIdIdle
    /\ ReaderIdle

\* the merged range is written into the best operation's own dict
MergedInPlace(ops) ==
    [i \in 1..Len(ops) |->
        LET place(group, rank) ==
                IF Len(group) >= 2 /\ rank = BestIndex(group)
                THEN _select_best_operation(group)
                ELSE ops[i]
        IN  place(SelectSeq(ops, LAMBDA o : GroupKey(o) = GroupKey(ops[i])),
                  Cardinality({j \in 1..i : GroupKey(ops[j]) = GroupKey(ops[i])}))]

\* the caller's list after the call: a lone operation is appended as it is
\* (line 276) and the merge writes into a copy of the best one (line 326), so
\* no dict of the list is written to
operations_after(ops) == ops

Deduplicate ==
    /\ dpc = "ready"
    /\ deduplicated' = _deduplicate_operations(operations)
    /\ operations' = operations_after(operations)
    /\ dpc' = "done"
    /\ UNCHANGED <<deduplicated_again, fmt, mapping, xvars, fvars, svars>>

\* a second call, on the list the first one returned
DeduplicateAgain ==
    /\ dpc = "done"
    /\ deduplicated_again' = _deduplicate_operations(deduplicated)
    /\ deduplicated' = operations_after(deduplicated)
    /\ dpc' = "again"
    /\ UNCHANGED <<operations, fmt, mapping, xvars, fvars, svars>>

NextDedup == Deduplicate \/ DeduplicateAgain

SpecDedup == InitDedup /\ [][NextDedup]_vars

-----------------------------------------------------------------------------
(* Properties of the deduplicator (SpecDedup) *)

\* the positions of the input records that share a dedup key
Members(key) == { i \in 1..Len(operations) : GroupKey(operations[i]) = key }
InputKeys == { GroupKey(operations[i]) : i \in 1..Len(operations) }
\* the positions of the returned records with that key
Survivors(key) == { k \in 1..Len(deduplicated) : GroupKey(deduplicated[k]) = key }

\* v is the least (greatest) of the non-null values of field f over the members
IsLeast(v, key, f) ==
    /\ \E i \in Members(key) : operations[i][f] = Some(v)
    /\ \A i \in Members(key) : ~IsNone(operations[i][f]) => v <= Get(operations[i][f])
IsGreatest(v, key, f) ==
    /\ \E i \in Members(key) : operations[i][f] = Some(v)
    /\ \A i \in Members(key) : ~IsNone(operations[i][f]) => Get(operations[i][f]) <= v
NoValue(key, f) == \A i \in Members(key) : IsNone(operations[i][f])

\* C1 (dedup range-widening): for every group of two or more records sharing a
\* key, the returned record has the minimum of the members' non-null
\* negotiated_min and the maximum of their non-null negotiated_max; a bound no
\* member has a value for stays as it is on the survivor (absent).
C1_RangeWidening ==
    dpc = "done" =>
        \A key \in InputKeys :
            Cardinality(Members(key)) >= 2 =>
                \A k \in Survivors(key) :
                    /\ IF NoValue(key, "negotiated_min")
                       THEN IsNone(deduplicated[k].negotiated_min)
                       ELSE /\ ~IsNone(deduplicated[k].negotiated_min)
                            /\ IsLeast(Get(deduplicated[k].negotiated_min), key,
                                       "negotiated_min")
                    /\ IF NoValue(key, "negotiated_max")
                       THEN IsNone(deduplicated[k].negotiated_max)
                       ELSE /\ ~IsNone(deduplicated[k].negotiated_max)
                            /\ IsGreatest(Get(deduplicated[k].negotiated_max), key,
                                          "negotiated_max")

\* a group whose widest range comes from two different members, neither of
\* which carries it alone
C1_Witness ==
    /\ dpc = "done"
    /\ \E key \in InputKeys :
        /\ Cardinality(Members(key)) >= 2
        /\ \E k \in Survivors(key) :
            /\ ~IsNone(deduplicated[k].negotiated_min)
            /\ ~IsNone(deduplicated[k].negotiated_max)
            /\ \A i \in Members(key) :
                 \/ operations[i].negotiated_min # deduplicated[k].negotiated_min
                 \/ operations[i].negotiated_max # deduplicated[k].negotiated_max

\* C2 (dedup price-priority): in a duplicate group holding a candidate with a
\* cash price and a candidate without cash price but with a gross charge, the
\* survivor is a candidate with a cash price, whatever the magnitudes.
C2_PricePriority ==
    dpc = "done" =>
        \A key \in InputKeys :
            ( /\ \E i \in Members(key) : ~IsNone(operations[i].cash_price)
              /\ \E j \in Members(key) : /\ IsNone(operations[j].cash_price)
                                         /\ ~IsNone(operations[j].gross_charge) )
            => \A k \in Survivors(key) : ~IsNone(deduplicated[k].cash_price)

\* the position at which a key is first seen in the input
FirstSeen(key) == CHOOSE i \in Members(key) : \A j \in Members(key) : i <= j

\* C3 (one record per key, first-seen order): the deduplicator returns exactly
\* one record per distinct group key of the input, in the order in which the
\* keys are first seen in the input.
C3_OnePerKeyInOrder ==
    dpc = "done" =>
        /\ Len(deduplicated) = Cardinality(InputKeys)
        /\ \A key \in InputKeys : Cardinality(Survivors(key)) = 1
        /\ \A a, b \in 1..Len(deduplicated) :
             a < b => FirstSeen(GroupKey(deduplicated[a]))
                        < FirstSeen(GroupKey(deduplicated[b]))

\* two keys interleaved with a duplicate: A, B, A
C3_Witness ==
    /\ dpc = "done"
    /\ Len(operations) = 3
    /\ GroupKey(operations[1]) = GroupKey(operations[3])
    /\ GroupKey(operations[1]) # GroupKey(operations[2])
    /\ Len(deduplicated) = 2
    /\ GroupKey(deduplicated[1]) = GroupKey(operations[1])

-----------------------------------------------------------------------------
(* processor.DataProcessor.process_file, _extract_hospital_metadata,        *)
(* _create_hospital_record                                                  *)

\* the truth value of an Optional[str]: neither None nor ''
Present(o) == ~IsNone(o) /\ Get(o) # << >>

\* lines 258-269: the hospital name taken from the file name
filename_hospital_name(file_stem) ==
    LET filename_parts == SplitOn(file_stem, "_")
    IN  IF Len(filename_parts) >= 3
           /\ filename_parts[Len(filename_parts)] = <<"s","t","a","n","d","a","r","d","c","h","a","r","g","e","s">>
        THEN title(ReplaceChar(
                 Join(SubSeq(filename_parts, 2, Len(filename_parts) - 1), <<"_">>),
                 "-", " "))
        ELSE title(ReplaceChar(ReplaceChar(file_stem, "-", " "), "_", " "))

\* mutant: unresolved location fields are given default values
ExtractMetadataWithDefaults(found, file_stem) ==
    LET name == IF Present(found.facility_name) THEN found.facility_name
                ELSE Some(filename_hospital_name(file_stem))
    IN  Some([facility_id    |-> Some(generate_facility_id(Get(name))),
              facility_name  |-> name,
              city           |-> IF Present(found.city) THEN found.city ELSE Some(<<"U","n","k","n","o","w","n">>),
              state          |-> IF Present(found.state) THEN found.state ELSE Some(<<"X","X">>),
              address        |-> IF Present(found.address) THEN found.address
                                 ELSE Some(<<"U","n","k","n","o","w","n">>)])

\* lines 257-284 of _extract_hospital_metadata, applied to the metadata found
\* in the file content: None when the ValueError of line 280 is raised
_extract_hospital_metadata(found, file_stem) ==
    LET resolve(facility_name) ==
            IF \/ ~Present(facility_name)
               \/ ~Present(found.city)
               \/ ~Present(found.state)
               \/ ~Present(found.address)
            THEN None
            ELSE Some([facility_id    |-> Some(generate_facility_id(Get(facility_name))),
                       facility_name  |-> facility_name,
                       city           |-> found.city,
                       state          |-> found.state,
                       address        |-> found.address])
    IN  resolve(IF Present(found.facility_name) THEN found.facility_name
                ELSE Some(filename_hospital_name(file_stem)))

SupportedFormats == {"json", "csv", "ndjson"}

\* the position at which the format-specific processor starts
ProcessorStart == IF fmt = "csv" THEN "csv_rows" ELSE "json_loop"

\* lines 64-73: the file must exist and its detected format be supported
CheckFile ==
    /\ pc = "start"
    /\ IF ~exists \/ fmt \notin SupportedFormats
       THEN pc' = "failed" /\ outcome' = "raised"
       ELSE pc' = "metadata" /\ UNCHANGED outcome
    /\ UNCHANGED <<fmt, mapping, hvars, ovars, xvars, dvars, file, batch_size, pos, pending,
                   all_operations, batch_operations, successful_records,
                   failed_records, errors, written>>

\* lines 80-82: the caller's metadata, or the metadata extracted from the file
ResolveMetadata ==
    /\ pc = "metadata"
    /\ IF ~IsNone(hospital_metadata)
       THEN metadata' = Get(hospital_metadata) /\ pc' = "hospital" /\ UNCHANGED outcome
       ELSE LET extract(extracted) ==
                    IF IsNone(extracted)
                    THEN pc' = "failed" /\ outcome' = "raised" /\ UNCHANGED metadata
                    ELSE metadata' = Get(extracted) /\ pc' = "hospital" /\ UNCHANGED outcome
            IN  extract(_extract_hospital_metadata(content, stem))
    /\ UNCHANGED <<fmt, mapping, exists, stem, content, hospital_metadata, writer,
                   facility_writes, ovars, xvars, dvars, file, batch_size, pos, pending,
                   all_operations, batch_operations, successful_records,
                   failed_records, errors, written>>

\* mutant: the hospital record is validated but never written
CreateHospitalRecordWithoutWrite ==
    /\ pc = "hospital"
    /\ IF ~HospitalValid(metadata)
       THEN pc' = "failed" /\ outcome' = "raised"
       ELSE pc' = ProcessorStart /\ UNCHANGED outcome
    /\ UNCHANGED <<fmt, mapping, hvars, ovars, xvars, dvars, file, batch_size, pos, pending,
                   all_operations, batch_operations, successful_records,
                   failed_records, errors, written>>

\* lines 84-85 and 355-384: the Hospital is validated and, when a writer is
\* configured, written; a validation or write error is re-raised
CreateHospitalRecord ==
    /\ pc = "hospital"
    /\ IF ~HospitalValid(metadata)
       THEN pc' = "failed" /\ outcome' = "raised" /\ UNCHANGED facility_writes
       ELSE IF writer
       THEN \E ok \in BOOLEAN :
              /\ facility_writes' = Append(facility_writes, [data |-> metadata, ok |-> ok])
              /\ IF ok THEN pc' = ProcessorStart /\ UNCHANGED outcome
                 ELSE pc' = "failed" /\ outcome' = "raised"
       ELSE pc' = ProcessorStart /\ UNCHANGED <<facility_writes, outcome>>
    /\ UNCHANGED <<fmt, mapping, exists, stem, content, hospital_metadata, writer,
                   metadata, ovars, xvars, dvars, file, batch_size, pos, pending,
                   all_operations, batch_operations, successful_records,
                   failed_records, errors, written>>

\* metadata a caller may supply: complete, or with a state Hospital rejects
ValidMetadata ==
    [facility_id   |-> Some(<<"k","n","e","e","-","c","t","r">>),
     facility_name |-> Some(<<"K","n","e","e"," ","C","e","n","t","e","r">>),
     city          |-> Some(<<"A","u","s","t","i","n">>),
     state         |-> Some(<<"T","X">>),
     address       |-> Some(<<"1"," ","M","a","i","n"," ","S","t">>)]
SuppliedMetadata ==
    { None, Some(ValidMetadata), Some([ValidMetadata EXCEPT !.state = Some(<<"t","x">>)]) }

\* what the metadata rows or header lines of a file can yield
CompleteContent ==
    [facility_name |-> Some(<<"K","n","e","e"," ","C","e","n","t","e","r">>), city |-> Some(<<"A","u","s","t","i","n">>),
     state |-> Some(<<"T","X">>), address |-> Some(<<"1"," ","M","a","i","n"," ","S","t">>)]
ContentMetadata ==
    { CompleteContent,
      [CompleteContent EXCEPT !.facility_name = None],
      [CompleteContent EXCEPT !.city = None],
      [CompleteContent EXCEPT !.state = None],
      [CompleteContent EXCEPT !.address = Some(<< >>)],
      [facility_name |-> None, city |-> None, state |-> None, address |-> None] }

Stems == { <<"1","2","_","k","n","e","e","-","c","e","n","t","e","r","_","s","t","a","n","d","a","r","d","c","h","a","r","g","e","s">>, <<"k","n","e","e","_","c","e","n","t","e","r">>, <<"-","-","-">> }

-----------------------------------------------------------------------------
(* CSVProcessor.process_csv_file and JSONProcessor.process_json_file *)

MaxRows == 3
MaxRowsFailing == 1
MaxBatchSize == 2

\* rows of a CSV file: two rows of one dedup key, a row of another key and a
\* row without cash price
RowA == MakeRow(<<" ","K","n","e","e"," ","M","R","I"," ">>, <<" ","7","0","5","5","1"," ">>, <<"C","P","T">>, << >>, <<"R","C">>, <<"$","1",",","4","5","0",".","0","0">>, <<"2",",","0","0","0">>,
                <<"1","0","0">>, <<"2","0","0">>, <<"o","u","t","p","a","t","i","e","n","t">>)
RowA2 == MakeRow(<<"K","n","e","e"," ","M","R","I">>, <<"7","0","5","5","1">>, <<" ","c","p","t"," ">>, << >>, <<"R","C">>, <<"4","5","0",".","0","0">>, <<"2",",","0","0","0">>,
                 <<"3","0","0">>, << >>, << >>)
RowB == MakeRow(<<"K","n","e","e"," ","M","R","I">>, <<"7","0","5","5","1">>, <<"C","P","T">>, <<"0","4","5","0">>, <<"R","C">>, <<"4","5","0",".","0","0">>, <<"2",",","0","0","0">>,
                << >>, << >>, <<"o","u","t","p","a","t","i","e","n","t">>)
RowBad == MakeRow(<<"K","n","e","e"," ","M","R","I">>, <<"7","0","5","5","1">>, <<"C","P","T">>, << >>, <<"R","C">>, <<"N","/","A">>, <<"2",",","0","0","0">>,
                  << >>, << >>, <<"o","u","t","p","a","t","i","e","n","t">>)
FileRows == {RowA, RowA2, RowB, RowBad}

\* items of a JSON array; an entry of the stream is a dict or a list of dicts
ItemA ==
    [isdict |-> TRUE, description |-> Some(JStr(<<"K","n","e","e"," ","M","R","I">>)),
     code_information |-> <<[type |-> Some(JStr(S_CPT)), code |-> Some(JStr(<<"7","0","5","5","1">>))]>>,
     standard_charges |-> <<[discounted_cash |-> Some(JNum(Dec(45000, 0 - 2))),
                             gross_charge |-> None,
                             minimum |-> Some(JNum(Dec(100, 0))),
                             maximum |-> Some(JNum(Dec(200, 0))),
                             setting |-> Some(JStr(S_outpatient))]>>]
ItemB ==
    [isdict |-> TRUE, description |-> Some(JStr(<<"K","n","e","e"," ","M","R","I">>)),
     code_information |-> <<[type |-> Some(JStr(S_RC)), code |-> Some(JStr(<<"0","4","5","0">>))]>>,
     standard_charges |-> <<[discounted_cash |-> Some(JNum(Dec(120, 0))),
                             gross_charge |-> None,
                             minimum |-> None,
                             maximum |-> None,
                             setting |-> None]>>]
ItemBad ==
    [isdict |-> TRUE, description |-> Some(JStr(<<"K","n","e","e"," ","M","R","I">>)),
     code_information |-> <<[type |-> Some(JStr(S_CPT)), code |-> Some(JStr(<<"7","0","5","5","1">>))]>>,
     standard_charges |-> << >>]
\* an item that passes every gate and fails the validation of the record
ItemInvalid ==
    [isdict |-> TRUE, description |-> Some(JStr(<<"K","n","e","e"," ","M","R","I">>)),
     code_information |-> <<[type |-> Some(JStr(S_CPT)), code |-> Some(JStr(<<"7","0","5","5","1">>))]>>,
     standard_charges |-> <<[discounted_cash |-> Some(JNum(Dec(45000, 0 - 2))),
                             gross_charge |-> Some(JNum(Neg(5, 0))),
                             minimum |-> None,
                             maximum |-> None,
                             setting |-> None]>>]
FileItems ==
    { [is_list |-> FALSE, items |-> <<ItemA>>],
      [is_list |-> FALSE, items |-> <<ItemB>>],
      [is_list |-> FALSE, items |-> <<ItemBad>>],
      [is_list |-> FALSE, items |-> <<ItemInvalid>>],
      [is_list |-> TRUE, items |-> <<ItemA, ItemB>>] }

\* mutant: the batch is flushed only once it exceeds batch_size
BatchFullOffByOne(batch, size) == Len(batch) > size

\* len(batch_operations) >= self.batch_size
BatchFull(batch, size) == Len(batch) >= size

\* the operations one stream entry yields, in order: _parse_json_item of the
\* item, or of every sub_item of a list
RECURSIVE json_entry_operations(_)
json_entry_operations(items) ==
    IF items = << >> THEN << >>
    ELSE _parse_json_item(Head(items), FacilityId) \o json_entry_operations(Tail(items))

\* the run has a file and metadata for which process_file reaches the
\* format-specific processor whatever the file holds
PlainRun ==
    /\ exists
    /\ fmt \in SupportedFormats
    /\ hospital_metadata = Some(ValidMetadata)
    /\ content = CompleteContent
    /\ stem = CHOOSE st \in Stems : Len(st) > 11

Init ==
    /\ exists \in BOOLEAN
    /\ fmt \in (IF exists THEN {"csv", "json", "ndjson", "unknown"} ELSE {"csv"})
    /\ hospital_metadata \in SuppliedMetadata
    /\ content \in ContentMetadata
    /\ stem \in Stems
    /\ writer \in BOOLEAN
    /\ metadata = << >>
    /\ facility_writes = << >>
    /\ DirectoryIdle
    /\ MapperIdle
    /\ FacilityIdIdle
    /\ ReaderIdle
    /\ mapping = FullMapping
    /\ file \in UNION { [1..n -> (IF fmt = "csv" THEN FileRows ELSE FileItems)] :
                        n \in 0..(IF PlainRun THEN MaxRows ELSE MaxRowsFailing) }
    /\ batch_size \in 1..MaxBatchSize
    /\ pc = "start"
    /\ pos = 1
    /\ pending = << >>
    /\ all_operations = << >>
    /\ batch_operations = << >>
    /\ successful_records = 0
    /\ failed_records = 0
    /\ errors = << >>
    /\ written = << >>
    /\ outcome = "running"
    /\ row = << >>
    /\ emitted = << >>
    /\ xpc = "idle"
    /\ operations = << >>
    /\ deduplicated = << >>
    /\ deduplicated_again = << >>
    /\ dpc = "idle"

\* csv lines 58-67: one row of the stream is parsed and collected
CsvRow ==
    /\ pc = "csv_rows"
    /\ pos <= Len(file)
    /\ LET operation == _parse_csv_row_with_mapping(file[pos], FacilityId, mapping)
       IN  IF ~IsNone(operation)
           THEN /\ all_operations' = Append(all_operations, Get(operation))
                /\ UNCHANGED failed_records
           ELSE /\ failed_records' = failed_records + 1
                /\ UNCHANGED all_operations
    /\ pos' = pos + 1
    /\ UNCHANGED <<fmt, mapping, svars, xvars, dvars, file, batch_size, pc, pending,
                   batch_operations, successful_records, errors, written, outcome>>

\* csv lines 69-75: the stream is exhausted, the collected operations are
\* deduplicated
CsvDeduplicate ==
    /\ pc = "csv_rows"
    /\ pos > Len(file)
    /\ pending' = _deduplicate_operations(all_operations)
    /\ pc' = "csv_batch"
    /\ UNCHANGED <<fmt, mapping, svars, xvars, dvars, file, batch_size, pos, all_operations,
                   batch_operations, successful_records, failed_records, errors,
                   written, outcome>>

\* csv lines 76-83 and 89-98: one deduplicated operation joins the batch; a
\* full batch is written, and a raising write ends in the except clause that
\* records the error and returns the result
CsvOperation ==
    /\ pc = "csv_batch"
    /\ pending # << >>
    /\ pending' = Tail(pending)
    /\ successful_records' = successful_records + 1
    /\ LET batch == Append(batch_operations, Head(pending))
       IN  IF BatchFull(batch, batch_size)
           THEN \E ok \in BOOLEAN :
                  /\ written' = Append(written, [batch |-> batch, ok |-> ok])
                  /\ IF ok
                     THEN /\ batch_operations' = << >>
                          /\ UNCHANGED <<errors, pc, outcome>>
                     ELSE /\ batch_operations' = batch
                          /\ errors' = Append(errors, "File processing error")
                          /\ pc' = "done"
                          /\ outcome' = "returned"
           ELSE /\ batch_operations' = batch
                /\ UNCHANGED <<written, errors, pc, outcome>>
    /\ UNCHANGED <<fmt, mapping, svars, xvars, dvars, file, batch_size, pos, all_operations,
                   failed_records>>

\* csv lines 85-98: the remaining batch is written and the result returned
CsvFinal ==
    /\ pc = "csv_batch"
    /\ pending = << >>
    /\ IF batch_operations # << >>
       THEN \E ok \in BOOLEAN :
              /\ written' = Append(written, [batch |-> batch_operations, ok |-> ok])
              /\ errors' = IF ok THEN errors
                           ELSE Append(errors, "File processing error")
       ELSE UNCHANGED <<written, errors>>
    /\ pc' = "done"
    /\ outcome' = "returned"
    /\ UNCHANGED <<fmt, mapping, svars, xvars, dvars, file, batch_size, pos, pending,
                   all_operations, batch_operations, successful_records,
                   failed_records>>

\* json lines 34-43, 56: the next entry of the stream is parsed
JsonItem ==
    /\ pc = "json_loop"
    /\ pos <= Len(file)
    /\ pending' = json_entry_operations(file[pos].items)
    /\ pos' = pos + 1
    /\ pc' = IF json_entry_operations(file[pos].items) = << >>
             THEN "json_loop" ELSE "json_item"
    /\ UNCHANGED <<fmt, mapping, svars, xvars, dvars, file, batch_size, all_operations,
                   batch_operations, successful_records, failed_records, errors,
                   written, outcome>>

\* json lines 44-52 / 57-65 and 69-72: one operation of the entry joins the
\* batch; a full batch is written, and a raising write is caught by the
\* per-item except clause, which counts a failure and goes on with the next
\* entry without emptying the batch
JsonOperation ==
    /\ pc = "json_item"
    /\ successful_records' = successful_records + 1
    /\ LET batch == Append(batch_operations, Head(pending))
       IN  IF BatchFull(batch, batch_size)
           THEN \E ok \in BOOLEAN :
                  /\ written' = Append(written, [batch |-> batch, ok |-> ok])
                  /\ IF ok
                     THEN /\ batch_operations' = << >>
                          /\ pending' = Tail(pending)
                          /\ pc' = IF Tail(pending) = << >> THEN "json_loop" ELSE "json_item"
                          /\ UNCHANGED <<failed_records, errors>>
                     ELSE /\ batch_operations' = batch
                          /\ pending' = << >>
                          /\ failed_records' = failed_records + 1
                          /\ errors' = Append(errors, "JSON item processing error")
                          /\ pc' = "json_loop"
           ELSE /\ batch_operations' = batch
                /\ pending' = Tail(pending)
                /\ pc' = IF Tail(pending) = << >> THEN "json_loop" ELSE "json_item"
                /\ UNCHANGED <<written, failed_records, errors>>
    /\ UNCHANGED <<fmt, mapping, svars, xvars, dvars, file, batch_size, pos, all_operations,
                   outcome>>

\* json lines 74-89: the stream is exhausted, or, reading the second value of
\* an NDJSON file, raises into the except clause of line 74; the remaining
\* batch is written outside every try block, then the result is returned
JsonFinal ==
    /\ pc = "json_loop"
    /\ pos > Len(file)
    /\ \E stream_raises \in (IF fmt = "ndjson" THEN BOOLEAN ELSE {FALSE}) :
          errors' = IF stream_raises THEN Append(errors, "File processing error")
                    ELSE errors
    /\ IF batch_operations # << >>
       THEN \E ok \in BOOLEAN :
              /\ written' = Append(written, [batch |-> batch_operations, ok |-> ok])
              /\ outcome' = IF ok THEN "returned" ELSE "raised"
       ELSE /\ outcome' = "returned"
            /\ UNCHANGED written
    /\ pc' = "done"
    /\ UNCHANGED <<fmt, mapping, svars, xvars, dvars, file, batch_size, pos, pending,
                   all_operations, batch_operations, successful_records,
                   failed_records>>

Next ==
    \/ CheckFile
    \/ ResolveMetadata
    \/ CreateHospitalRecord
    \/ CsvRow
    \/ CsvDeduplicate
    \/ CsvOperation
    \/ CsvFinal
    \/ JsonItem
    \/ JsonOperation
    \/ JsonFinal

Spec == Init /\ [][Next]_vars

-----------------------------------------------------------------------------
(* Properties of the file pipeline (Spec) *)

\* the operations the extractor yields for the rows of a CSV file
RECURSIVE CsvExtracted(_)
CsvExtracted(rows) ==
    IF rows = << >> THEN << >>
    ELSE _parse_csv_row_with_mapping(Head(rows), FacilityId, mapping)
            \o CsvExtracted(Tail(rows))

\* the operations the extractor yields for the entries of a JSON array
RECURSIVE JsonExtracted(_)
JsonExtracted(entries) ==
    IF entries = << >> THEN << >>
    ELSE json_entry_operations(Head(entries).items) \o JsonExtracted(Tail(entries))

\* the records the pipeline of the file produces for the sink
RecordsToWrite ==
    IF fmt = "csv" THEN _deduplicate_operations(CsvExtracted(file))
    ELSE JsonExtracted(file)

RECURSIVE ConcatBatches(_)
ConcatBatches(calls) ==
    IF calls = << >> THEN << >>
    ELSE Head(calls).batch \o ConcatBatches(Tail(calls))

NoSinkFailure == \A i \in 1..Len(written) : written[i].ok

\* C9 (batching): when no sink call fails, n records to write cause exactly
\* ceil(n / batch_size) writeBatch calls; every call but the last carries
\* batch_size records, the last between 1 and batch_size, none is empty, and the
\* batches concatenated are the records to write, once each and in order.
C9_Batching ==
    (pc = "done" /\ NoSinkFailure) =>
        /\ Len(written) = (Len(RecordsToWrite) + batch_size - 1) \div batch_size
        /\ \A i \in 1..Len(written) :
             /\ Len(written[i].batch) >= 1
             /\ Len(written[i].batch) <= batch_size
             /\ i < Len(written) => Len(written[i].batch) = batch_size
        /\ ConcatBatches(written) = RecordsToWrite

\* a run with a full batch followed by a final partial batch
C9_Witness ==
    /\ pc = "done"
    /\ NoSinkFailure
    /\ batch_size = 2
    /\ Len(written) = 2
    /\ Len(written[2].batch) = 1

\* C10 (sink error propagation): whenever a writeBatch call raises, the file
\* processing operation raises to its caller; it never returns a result
\* normally after a failed write.
C10_SinkErrorPropagates ==
    outcome = "returned" => NoSinkFailure

\* the records of the first i writeBatch calls, in the order submitted
Submitted == ConcatBatches(written)

\* batch a is an initial segment of batch b
IsPrefix(a, b) == Len(a) <= Len(b) /\ SubSeq(b, 1, Len(a)) = a

\* C11 (no retries): every record is passed to the sink in at most one
\* writeBatch call, so the calls together carry no more records than were
\* produced, and a batch whose write raised is not contained in a later batch.
C11_NoRetries ==
    /\ Len(Submitted) <= successful_records
    /\ \A i \in 1..Len(written) : \A j \in (i + 1)..Len(written) :
         ~written[i].ok => ~IsPrefix(written[i].batch, written[j].batch)

\* C12 (dedupe precedes writing): the first writeBatch call happens only after
\* every row/item of the file has been read, and the records written for one
\* file never contain two records of the same (description, sorted codes) key.
C12_DedupePrecedesWriting ==
    /\ written # << >> => pos > Len(file)
    /\ NoSinkFailure =>
         \A i \in 1..Len(Submitted) : \A j \in (i + 1)..Len(Submitted) :
            GroupKey(Submitted[i]) # GroupKey(Submitted[j])

\* the facility name after the content and the file-name fallback
ResolvedName ==
    IF Present(content.facility_name) THEN content.facility_name
    ELSE Some(filename_hospital_name(stem))

\* the file is missing, its format is unsupported, or no metadata was supplied
\* and a required field is unresolved after all fallbacks
StructuralError ==
    \/ ~exists
    \/ fmt \notin SupportedFormats
    \/ /\ IsNone(hospital_metadata)
       /\ \/ ~Present(ResolvedName)
          \/ ~Present(content.city)
          \/ ~Present(content.state)
          \/ ~Present(content.address)

\* C13 (file-level structural errors): for a missing file, an unsupported
\* format or unresolved required metadata, process_file never returns a
\* result, ends by raising, assigns no metadata (so no defaulted location
\* field) and makes no write_hospital and no writeBatch call.
C13_StructuralErrorsFatal ==
    StructuralError =>
        /\ pc \in {"start", "metadata", "failed"}
        /\ pc = "failed" => outcome = "raised"
        /\ outcome # "returned"
        /\ metadata = << >>
        /\ facility_writes = << >>
        /\ written = << >>

\* a file with unresolved metadata has been rejected
C13_Witness ==
    /\ exists
    /\ fmt \in SupportedFormats
    /\ StructuralError
    /\ pc = "failed"
    /\ outcome = "raised"
    /\ file # << >>

\* the number of items of a JSON entry that yield no record
RECURSIVE ItemsWithoutRecord(_)
ItemsWithoutRecord(items) ==
    IF items = << >> THEN 0
    ELSE (IF _parse_json_item(Head(items), FacilityId) = << >> THEN 1 ELSE 0)
         + ItemsWithoutRecord(Tail(items))

\* the number of rows/items of the file that yield no record
RECURSIVE ReadWithoutRecord(_)
ReadWithoutRecord(entries) ==
    IF entries = << >> THEN 0
    ELSE (IF fmt = "csv"
          THEN (IF IsNone(_parse_csv_row_with_mapping(Head(entries), FacilityId, mapping))
                THEN 1 ELSE 0)
          ELSE ItemsWithoutRecord(Head(entries).items))
         + ReadWithoutRecord(Tail(entries))

\* C14 (discarded rows are counted): after a file is processed with no sink
\* failure, failed_records equals the number of rows/items read that
\* produced no record.
C14_DiscardedCountedAsFailed ==
    (pc = "done" /\ outcome = "returned" /\ NoSinkFailure) =>
        failed_records = ReadWithoutRecord(file)

\* the item reaches MedicalOperation(**price_record) (json line 152) and the
\* construction raises
JsonFailsValidation(item) ==
    LET reaches(setting, prices, infos) ==
            /\ ~setting.raised
            /\ IsNone(setting.value) \/ Get(setting.value) = S_outpatient
            /\ ~prices.raised
            /\ ~IsNone(prices.cash_price) /\ Get(prices.cash_price) > 0
            /\ ~IsNone(infos)
            /\ json_codes_dict(Get(infos), << >>) # << >>
    IN  /\ item.isdict
        /\ reaches(_extract_setting_from_item(item), _extract_prices_from_item(item),
                   _extract_codes_from_item(item))
        /\ _parse_json_item(item, FacilityId) = << >>

\* the row reaches MedicalOperation(**price_record) (csv line 196) and the
\* construction raises
CsvFailsValidation(r) ==
    /\ csv_extract_codes(r, mapping.code_columns, << >>) # << >>
    /\ ~IsNone(csv_price(r, mapping.cash_price))
    /\ ~(Truthy(csv_setting(r, mapping)) /\ Get(csv_setting(r, mapping)) # S_outpatient)
    /\ IsNone(_parse_csv_row_with_mapping(r, FacilityId, mapping))

\* the number of rows/items of the file whose record fails validation
RECURSIVE ValidationFailures(_)
ValidationFailures(entries) ==
    IF entries = << >> THEN 0
    ELSE (IF fmt = "csv"
          THEN (IF CsvFailsValidation(Head(entries)) THEN 1 ELSE 0)
          ELSE Cardinality({i \in 1..Len(Head(entries).items) :
                              JsonFailsValidation(Head(entries).items[i])}))
         + ValidationFailures(Tail(entries))

\* C15 (validation errors are counted and retained): after a file is processed
\* with no sink failure, every row/item whose record construction failed
\* validation has added one to failed_records and one message to errors.
C15_ValidationErrorsRetained ==
    (pc = "done" /\ outcome = "returned" /\ NoSinkFailure /\ fmt # "ndjson") =>
        /\ failed_records >= ValidationFailures(file)
        /\ Len(errors) >= ValidationFailures(file)

-----------------------------------------------------------------------------
(* DataProcessor.process_directory: one task per matched file, gathered *)

MaxFiles == 3
MaxWorkers == 2

\* the extractor and the deduplicator are not running
ExtractorsIdle ==
    /\ fmt = "csv"
    /\ mapping = FullMapping
    /\ row = << >>
    /\ emitted = << >>
    /\ xpc = "idle"
    /\ operations = << >>
    /\ deduplicated = << >>
    /\ deduplicated_again = << >>
    /\ dpc = "idle"

\* what process_file will meet in a matched file
FileKinds == {"complete", "no_metadata", "unsupported", "hospital_write_fails"}

\* the outcome of process_file(file_path): a DataIngestionResult is returned,
\* or the ValueError of an unsupported format, the ValueError of missing
\* metadata or the exception of write_hospital is raised
process_file(kind) == IF kind = "complete" THEN "returned" ELSE "raised"

\* tasks interleave at their awaits (what a suspending sink would allow)
TasksInterleave == TRUE

\* the event loop runs one task step at a time, and no await of process_file
\* and of the processors suspends: a task that has started runs to its end
\* before the loop starts another one
NoTaskRunning == \A j \in 1..Len(tasks) : tasks[j] # "running"

\* every gathered result is kept
AllResults(results) == results

\* the results that are DataIngestionResult instances, in the order of the files
ValidResults(results) ==
    SelectSeq(results, LAMBDA result : result.outcome = "returned")

\* process_directory up to the gather: the directory check, the glob and one
\* coroutine per matched file
DirectoryStart ==
    /\ gpc = "start"
    /\ IF ~directory_exists
       THEN /\ gpc' = "raised"
            /\ tasks' = tasks
       ELSE /\ gpc' = "gather"
            /\ tasks' = [i \in 1..Len(files) |-> "created"]
    /\ UNCHANGED <<directory_exists, files, max_workers, valid_results>>
    /\ UNCHANGED <<fmt, mapping, xvars, dvars, fvars, hvars, cvars, ivars, rvars>>

\* the loop starts the task of the next file, in the order gather created them
TaskStart(i) ==
    /\ gpc = "gather"
    /\ tasks[i] = "created"
    /\ \A j \in 1..(i - 1) : tasks[j] # "created"
    /\ NoTaskRunning
    /\ tasks' = [tasks EXCEPT ![i] = "running"]
    /\ UNCHANGED <<directory_exists, files, max_workers, valid_results, gpc>>
    /\ UNCHANGED <<fmt, mapping, xvars, dvars, fvars, hvars, cvars, ivars, rvars>>

\* the task of a file ends: process_file returns or raises
TaskFinish(i) ==
    /\ gpc = "gather"
    /\ tasks[i] = "running"
    /\ tasks' = [tasks EXCEPT ![i] = process_file(files[i])]
    /\ UNCHANGED <<directory_exists, files, max_workers, valid_results, gpc>>
    /\ UNCHANGED <<fmt, mapping, xvars, dvars, fvars, hvars, cvars, ivars, rvars>>

\* gather(*tasks, return_exceptions=True) returns when every task has ended,
\* with a result or the exception of each; the results are then filtered
GatherReturn ==
    /\ gpc = "gather"
    /\ \A i \in 1..Len(tasks) : tasks[i] \in {"returned", "raised"}
    /\ valid_results' =
           ValidResults([i \in 1..Len(tasks) |-> [file |-> i, outcome |-> tasks[i]]])
    /\ gpc' = "done"
    /\ UNCHANGED <<directory_exists, files, max_workers, tasks>>
    /\ UNCHANGED <<fmt, mapping, xvars, dvars, fvars, hvars, cvars, ivars, rvars>>

InitDirectory ==
    /\ directory_exists \in BOOLEAN
    /\ files \in (IF directory_exists
                  THEN UNION { [1..n -> FileKinds] : n \in 0..MaxFiles }
                  ELSE {<< >>})
    /\ max_workers \in 1..MaxWorkers
    /\ tasks = << >>
    /\ valid_results = << >>
    /\ gpc = "start"
    /\ ExtractorsIdle
    /\ FileIdle
    /\ ProcessFileIdle
    /\ MapperIdle
    /\ FacilityIdIdle
    /\ ReaderIdle

NextDirectory ==
    \/ DirectoryStart
    \/ \E i \in 1..Len(tasks) : TaskStart(i)
    \/ \E i \in 1..Len(tasks) : TaskFinish(i)
    \/ GatherReturn

SpecDirectory == InitDirectory /\ [][NextDirectory]_vars

-----------------------------------------------------------------------------
(* Properties of process_directory (SpecDirectory) *)

\* the number of results returned for file i
ResultsFor(i) ==
    Cardinality({k \in 1..Len(valid_results) : valid_results[k].file = i})

\* C16 (directory-level failure isolation): when process_directory returns,
\* the task of every matched file has run to its own outcome, whatever the
\* other tasks did, and the returned list holds exactly one result for every
\* file whose task returned and none for a file whose task raised.
C16_FailureIsolation ==
    gpc = "done" =>
        \A i \in 1..Len(files) :
            /\ tasks[i] = process_file(files[i])
            /\ ResultsFor(i) = (IF tasks[i] = "returned" THEN 1 ELSE 0)

\* the first file raised, a later one completed and is in the returned list
C16_Witness ==
    /\ gpc = "done"
    /\ Len(files) >= 2
    /\ tasks[1] = "raised"
    /\ tasks[Len(files)] = "returned"
    /\ ResultsFor(Len(files)) = 1

\* the tasks that have started and not yet finished
InFlight == {i \in 1..Len(tasks) : tasks[i] = "running"}

-----------------------------------------------------------------------------
(* CSVColumnMapper: the match of one scalar field *)

MaxHeaders == 2

DESCRIPTION_PATTERNS ==
    <<<<"d","e","s","c","r","i","p","t","i","o","n">>,
      <<"s","e","r","v","i","c","e","_","d","e","s","c","r","i","p","t","i","o","n">>,
      <<"p","r","o","c","e","d","u","r","e","_","d","e","s","c","r","i","p","t","i","o","n">>,
      <<"i","t","e","m","_","d","e","s","c","r","i","p","t","i","o","n">>,
      <<"c","h","a","r","g","e","_","d","e","s","c","r","i","p","t","i","o","n">>,
      <<"c","p","t","_","d","e","s","c","r","i","p","t","i","o","n">>,
      <<"s","e","r","v","i","c","e">>,
      <<"p","r","o","c","e","d","u","r","e">>>>

CASH_PRICE_PATTERNS ==
    <<<<"s","t","a","n","d","a","r","d","_","c","h","a","r","g","e","|","d","i","s","c","o","u","n","t","e","d","_","c","a","s","h">>,
      <<"d","i","s","c","o","u","n","t","e","d","_","c","a","s","h">>,
      <<"c","a","s","h","_","p","r","i","c","e">>,
      <<"s","e","l","f","_","p","a","y">>,
      <<"s","e","l","f","p","a","y">>,
      <<"c","a","s","h","_","d","i","s","c","o","u","n","t">>,
      <<"d","i","s","c","o","u","n","t","e","d","_","p","r","i","c","e">>,
      <<"s","t","a","n","d","a","r","d","_","c","h","a","r","g","e","_","d","i","s","c","o","u","n","t","e","d","_","c","a","s","h">>,
      <<"c","a","s","h">>,
      <<"d","e","_","i","d","e","n","t","i","f","i","e","d","_","m","i","n","i","m","u","m">>>>

GROSS_CHARGE_PATTERNS ==
    <<<<"s","t","a","n","d","a","r","d","_","c","h","a","r","g","e","|","g","r","o","s","s">>,
      <<"g","r","o","s","s">>,
      <<"g","r","o","s","s","_","c","h","a","r","g","e">>,
      <<"s","t","a","n","d","a","r","d","_","c","h","a","r","g","e">>,
      <<"c","h","a","r","g","e","_","a","m","o","u","n","t">>,
      <<"l","i","s","t","_","p","r","i","c","e">>,
      <<"s","t","a","n","d","a","r","d","_","c","h","a","r","g","e","_","g","r","o","s","s">>,
      <<"g","r","o","s","s","_","p","r","i","c","e">>>>

MIN_NEGOTIATED_PATTERNS ==
    <<<<"s","t","a","n","d","a","r","d","_","c","h","a","r","g","e","|","m","i","n">>,
      <<"m","i","n">>,
      <<"m","i","n","i","m","u","m">>,
      <<"n","e","g","o","t","i","a","t","e","d","_","m","i","n">>,
      <<"m","i","n","_","n","e","g","o","t","i","a","t","e","d">>,
      <<"d","e","i","d","e","n","t","i","f","i","e","d","_","m","i","n">>,
      <<"d","e","_","i","d","e","n","t","i","f","i","e","d","_","m","i","n">>,
      <<"s","t","a","n","d","a","r","d","_","c","h","a","r","g","e","_","m","i","n">>,
      <<"m","i","n","_","p","r","i","c","e">>>>

MAX_NEGOTIATED_PATTERNS ==
    <<<<"s","t","a","n","d","a","r","d","_","c","h","a","r","g","e","|","m","a","x">>,
      <<"m","a","x">>,
      <<"m","a","x","i","m","u","m">>,
      <<"n","e","g","o","t","i","a","t","e","d","_","m","a","x">>,
      <<"m","a","x","_","n","e","g","o","t","i","a","t","e","d">>,
      <<"d","e","i","d","e","n","t","i","f","i","e","d","_","m","a","x">>,
      <<"d","e","_","i","d","e","n","t","i","f","i","e","d","_","m","a","x">>,
      <<"s","t","a","n","d","a","r","d","_","c","h","a","r","g","e","_","m","a","x">>,
      <<"m","a","x","_","p","r","i","c","e">>>>

SETTING_PATTERNS ==
    <<<<"s","e","t","t","i","n","g">>,
      <<"p","a","t","i","e","n","t","_","s","e","t","t","i","n","g">>,
      <<"c","a","r","e","_","s","e","t","t","i","n","g">>,
      <<"s","e","r","v","i","c","e","_","s","e","t","t","i","n","g">>,
      <<"l","o","c","a","t","i","o","n">>,
      <<"p","l","a","c","e","_","o","f","_","s","e","r","v","i","c","e">>>>

\* the pattern lists of the six scalar fields, as _build_mapping uses them
ScalarFieldPatterns ==
    { DESCRIPTION_PATTERNS, CASH_PRICE_PATTERNS, GROSS_CHARGE_PATTERNS,
      MIN_NEGOTIATED_PATTERNS, MAX_NEGOTIATED_PATTERNS, SETTING_PATTERNS }

\* the default of CSVColumnMapper.__init__, which process_csv_file relies on
fuzzy_threshold == 80

\* d[key] = value on an insertion-ordered dict: a new key goes last, an
\* existing key keeps its place and takes the new value
DictSet(d, key, value) ==
    IF \E i \in 1..Len(d) : d[i].key = key
    THEN [i \in 1..Len(d) |->
             IF d[i].key = key THEN [key |-> key, value |-> value] ELSE d[i]]
    ELSE Append(d, [key |-> key, value |-> value])

\* col.lower().replace(' ', '_')
normalize_column(col) == ReplaceChar(lower(col), " ", "_")

\* {col.lower().replace(' ', '_'): col for col in self.columns}
RECURSIVE normalized_columns(_, _)
normalized_columns(cols, d) ==
    IF cols = << >> THEN d
    ELSE normalized_columns(Tail(cols),
                            DictSet(d, normalize_column(Head(cols)), Head(cols)))

\* word in col_word
Contains(word, s) ==
    \E i \in 0..(Len(s) - Len(word)) : SubSeq(s, i + 1, i + Len(word)) = word

\* set(words)
ToSet(words) == {words[i] : i \in 1..Len(words)}

\* the (intersection, union, substring_match, len(pattern_words)) for which
\* the double-precision value of (jaccard * 0.7 + substring_score * 0.3) * 100
\* lies just below the integer that exact arithmetic gives, so that int()
\* returns one less (unions of up to 8 words, patterns of up to 4 words)
FloatShortfall ==
    { <<1,1,2,3>>, <<1,2,1,1>>, <<1,2,2,2>>, <<1,2,1,3>>, <<1,2,2,3>>, <<1,2,3,3>>,
      <<1,2,4,4>>, <<2,2,2,3>>, <<3,3,2,3>>, <<2,4,1,1>>, <<2,4,2,2>>, <<2,4,1,3>>,
      <<2,4,2,3>>, <<2,4,3,3>>, <<2,4,4,4>>, <<3,4,1,4>>, <<3,4,3,4>>, <<4,4,2,3>>,
      <<1,5,0,1>>, <<1,5,1,1>>, <<1,5,0,2>>, <<1,5,1,2>>, <<1,5,2,2>>, <<1,5,0,3>>,
      <<1,5,3,3>>, <<1,5,0,4>>, <<1,5,2,4>>, <<1,5,4,4>>, <<2,5,0,1>>, <<2,5,1,1>>,
      <<2,5,0,2>>, <<2,5,1,2>>, <<2,5,2,2>>, <<2,5,0,3>>, <<2,5,1,3>>, <<2,5,3,3>>,
      <<2,5,0,4>>, <<2,5,2,4>>, <<2,5,4,4>>, <<3,5,1,2>>, <<3,5,2,4>>, <<4,5,0,1>>,
      <<4,5,1,1>>, <<4,5,0,2>>, <<4,5,2,2>>, <<4,5,0,3>>, <<4,5,1,3>>, <<4,5,2,3>>,
      <<4,5,3,3>>, <<4,5,0,4>>, <<4,5,4,4>>, <<5,5,2,3>>, <<3,6,1,1>>, <<3,6,2,2>>,
      <<3,6,1,3>>, <<3,6,2,3>>, <<3,6,3,3>>, <<3,6,4,4>>, <<6,6,2,3>>, <<3,7,1,2>>,
      <<3,7,2,4>>, <<4,7,1,2>>, <<4,7,1,3>>, <<4,7,2,4>>, <<6,7,1,1>>, <<6,7,2,2>>,
      <<6,7,3,3>>, <<6,7,4,4>>, <<7,7,2,3>>, <<4,8,1,1>>, <<4,8,2,2>>, <<4,8,1,3>>,
      <<4,8,2,3>>, <<4,8,3,3>>, <<4,8,4,4>>, <<6,8,1,4>>, <<6,8,3,4>>, <<8,8,2,3>> }

\* int((intersection / union * 0.7 + substring_match / n * 0.3) * 100)
FloatScore(intersection, union, substring_match, n) ==
    LET exact == (70 * intersection * n + 30 * substring_match * union) \div (union * n)
    IN  IF <<intersection, union, substring_match, n>> \in FloatShortfall
        THEN exact - 1
        ELSE exact

\* _calculate_similarity(pattern, column)
_calculate_similarity(pattern, column) ==
    LET score(pattern_words, column_words) ==
            FloatScore(Cardinality(pattern_words \cap column_words),
                       Cardinality(pattern_words \cup column_words),
                       Cardinality({word \in pattern_words :
                                       \E col_word \in column_words :
                                           Contains(word, col_word)}),
                       Cardinality(pattern_words))
    IN  score(ToSet(SplitOn(pattern, "_")), ToSet(SplitOn(column, "_")))

\* the first header, in header order, that equals any variant
FirstHeaderMatch(pattern_list, normalized) ==
    LET hits == {i \in 1..Len(normalized) :
                    \E k \in 1..Len(pattern_list) :
                        normalized[i].key = lower(pattern_list[k])}
    IN  IF hits = {} THEN None
        ELSE Some(normalized[CHOOSE i \in hits : \A j \in hits : i <= j].value)

\* the exact-match loop of _find_best_match: the first pattern, in list order,
\* that is a key of normalized_columns
RECURSIVE exact_match(_, _)
exact_match(pattern_list, normalized) ==
    IF pattern_list = << >> THEN None
    ELSE LET hits == {i \in 1..Len(normalized) :
                         normalized[i].key = lower(Head(pattern_list))}
         IN  IF hits # {}
             THEN Some(normalized[CHOOSE i \in hits : TRUE].value)
             ELSE exact_match(Tail(pattern_list), normalized)

\* the fuzzy loop with `similarity >= best_score` for `similarity > best_score`:
\* of equal scores the pair met last is kept
RECURSIVE LastFuzzyMatch(_, _, _, _, _)
LastFuzzyMatch(pattern_list, normalized, k, best, best_score) ==
    IF k > Len(pattern_list) * Len(normalized) THEN best
    ELSE LET compare(similarity, col_original) ==
                 IF similarity >= fuzzy_threshold /\ similarity >= best_score
                 THEN LastFuzzyMatch(pattern_list, normalized, k + 1,
                                     Some(col_original), similarity)
                 ELSE LastFuzzyMatch(pattern_list, normalized, k + 1, best, best_score)
             item(p, c) ==
                 compare(_calculate_similarity(lower(pattern_list[p]), normalized[c].key),
                         normalized[c].value)
         IN  item(((k - 1) \div Len(normalized)) + 1, ((k - 1) % Len(normalized)) + 1)

\* the fuzzy loop of _find_best_match: every pattern against every normalised
\* column, in that nesting; step k is pattern (k-1) div n + 1 against column
\* (k-1) mod n + 1
RECURSIVE fuzzy_match(_, _, _, _, _)
fuzzy_match(pattern_list, normalized, k, best, best_score) ==
    IF k > Len(pattern_list) * Len(normalized) THEN best
    ELSE LET compare(similarity, col_original) ==
                 IF similarity >= fuzzy_threshold /\ similarity > best_score
                 THEN fuzzy_match(pattern_list, normalized, k + 1,
                                  Some(col_original), similarity)
                 ELSE fuzzy_match(pattern_list, normalized, k + 1, best, best_score)
             item(p, c) ==
                 compare(_calculate_similarity(lower(pattern_list[p]), normalized[c].key),
                         normalized[c].value)
         IN  item(((k - 1) \div Len(normalized)) + 1, ((k - 1) % Len(normalized)) + 1)

\* CSVColumnMapper(cols)._find_best_match(pattern_list)
_find_best_match(cols, pattern_list) ==
    LET find(normalized) ==
            LET choose(exact) ==
                    IF exact # None THEN exact
                    ELSE fuzzy_match(pattern_list, normalized, 1, None, 0)
            IN  choose(exact_match(pattern_list, normalized))
    IN  find(normalized_columns(cols, << >>))

\* header rows: exact variants of several ranks, a spelling with a space and
\* capitals, a header that only matches fuzzily, and one that matches nothing
Headers ==
    { <<"s","t","a","n","d","a","r","d","_","c","h","a","r","g","e","|","d","i","s","c","o","u","n","t","e","d","_","c","a","s","h">>,
      <<"c","a","s","h">>,
      <<"C","a","s","h"," ","P","r","i","c","e">>,
      <<"c","a","s","h","_","p","r","i","c","e">>,
      <<"p","r","i","c","e","_","c","a","s","h">>,
      <<"D","e","s","c","r","i","p","t","i","o","n">>,
      <<"g","r","o","s","s">>,
      <<"n","o","t","e","s">> }

FindBestMatch ==
    /\ mpc = "ready"
    /\ best_match' = _find_best_match(columns, patterns)
    /\ mpc' = "done"
    /\ UNCHANGED <<columns, patterns, code_groups>>
    /\ UNCHANGED <<fmt, mapping, xvars, dvars, fvars, hvars, gvars, ivars, rvars>>

InitMapper ==
    /\ columns \in UNION { [1..n -> Headers] : n \in 0..MaxHeaders }
    /\ patterns \in ScalarFieldPatterns
    /\ best_match = << >>
    /\ code_groups = << >>
    /\ mpc = "ready"
    /\ ExtractorsIdle
    /\ FileIdle
    /\ ProcessFileIdle
    /\ DirectoryIdle
    /\ FacilityIdIdle
    /\ ReaderIdle

NextMapper == FindBestMatch

SpecMapper == InitMapper /\ [][NextMapper]_vars

-----------------------------------------------------------------------------
(* Properties of the column mapper (SpecMapper) *)

\* the positions, in the pattern list, of the variants some header equals
VariantsPresent ==
    {k \in 1..Len(patterns) :
        \E i \in 1..Len(columns) : normalize_column(columns[i]) = patterns[k]}

\* the earliest of them
EarliestVariant == CHOOSE k \in VariantsPresent : \A j \in VariantsPresent : k <= j

\* the headers that equal the earliest variant present
EarliestHeaders ==
    {columns[i] : i \in {j \in 1..Len(columns) :
                            normalize_column(columns[j]) = patterns[EarliestVariant]}}

\* C19 (exact-match precedence): when some header, lowercased and with spaces
\* replaced by underscores, equals a variant of the field, the mapper returns
\* a header that equals the earliest such variant of the list, wherever the
\* headers stand in the row; when one header only equals that variant, it is
\* the one returned, so the result does not depend on the header order.
C19_ExactMatchPrecedence ==
    (mpc = "done" /\ VariantsPresent # {}) =>
        /\ best_match # None
        /\ Get(best_match) \in EarliestHeaders

\* "cash" stands before "standard_charge|discounted_cash" in the row and the
\* latter is returned for the cash price
C19_Witness ==
    /\ mpc = "done"
    /\ patterns = CASH_PRICE_PATTERNS
    /\ Len(columns) = 2
    /\ columns[1] = CASH_PRICE_PATTERNS[9]
    /\ columns[2] = CASH_PRICE_PATTERNS[1]
    /\ best_match = Some(CASH_PRICE_PATTERNS[1])

-----------------------------------------------------------------------------
(* generate_facility_id applied twice to one hospital name *)

MaxNamePieces == 3

\* the pieces hospital names are made of: mapped words, a short word, a
\* separator, a hyphen, a character the cleaning removes, a hyphen-led word
NamePieces ==
    { <<"B","a","y","l","o","r">>,
      <<"S","c","o","t","t">>,
      <<"M","e","d","i","c","a","l">>,
      <<"S","t">>,
      <<" ">>,
      <<"-">>,
      <<"*">>,
      <<"-","-","-","-","a">> }

\* the concatenation of the pieces
RECURSIVE Concat(_)
Concat(pieces) == IF pieces = << >> THEN << >> ELSE Head(pieces) \o Concat(Tail(pieces))

HospitalNames ==
    { Concat(pieces) : pieces \in UNION { [1..n -> NamePieces] : n \in 0..MaxNamePieces } }

\* one call of generate_facility_id(hospital_name)
GenerateFacilityId ==
    /\ ipc \in {"ready", "once"}
    /\ facility_ids' = Append(facility_ids, generate_facility_id(name_given))
    /\ ipc' = (IF ipc = "ready" THEN "once" ELSE "done")
    /\ UNCHANGED name_given
    /\ UNCHANGED <<fmt, mapping, xvars, dvars, fvars, hvars, gvars, cvars, rvars>>

InitFacilityId ==
    /\ name_given \in HospitalNames
    /\ facility_ids = << >>
    /\ ipc = "ready"
    /\ ExtractorsIdle
    /\ FileIdle
    /\ ProcessFileIdle
    /\ DirectoryIdle
    /\ MapperIdle
    /\ ReaderIdle

NextFacilityId == GenerateFacilityId

SpecFacilityId == InitFacilityId /\ [][NextFacilityId]_vars

-----------------------------------------------------------------------------
(* Properties of generate_facility_id (SpecFacilityId) *)

\* an ASCII letter or digit
IsAlnum(c) == IsLetter(c) \/ IndexIn(c, Digits) > 0

\* only characters of [a-z0-9-]
OnlyIdChars(v) ==
    \A i \in 1..Len(v) :
        \/ IndexIn(v[i], LowerLetters) > 0
        \/ IndexIn(v[i], Digits) > 0
        \/ v[i] = "-"

\* some whitespace-separated word of the name starts with a letter or digit
HasWordStartingAlnum(name) ==
    \E i \in 1..Len(name) :
        /\ IsAlnum(name[i])
        /\ i = 1 \/ name[i - 1] \in Whitespace

-----------------------------------------------------------------------------
(* streaming_utils.stream_csv_rows: the generator and its consumer *)

MaxLines == 3

\* the rows csv.reader can find: the cells of the row, or a row on which
\* csv.reader raises csv.Error
CsvLines ==
    { [cells |-> <<<<"a">>, <<" ","b"," ">>>>, bad |-> FALSE],
      [cells |-> <<<<"1">>>>, bad |-> FALSE],
      [cells |-> << >>, bad |-> FALSE],
      [cells |-> <<<<"1">>, <<"2">>, <<"3">>>>, bad |-> FALSE],
      [cells |-> << >>, bad |-> TRUE] }

\* the whole rest of the file is taken at once
TakeAll(remaining) == remaining

\* the rows one iteration of `for row in reader` takes from csv.reader
TakeOne(remaining) == IF remaining > 0 THEN 1 ELSE 0

\* while len(row) < len(header): row.append('')
PadRow(cells, n) ==
    [i \in 1..(IF Len(cells) < n THEN n ELSE Len(cells)) |->
        IF i <= Len(cells) THEN cells[i] ELSE << >>]

\* dict(zip(header, row)), filled pair by pair
RECURSIVE ZipDict(_, _, _)
ZipDict(names, cells, d) ==
    IF names = << >> \/ cells = << >> THEN d
    ELSE ZipDict(Tail(names), Tail(cells), DictSet(d, Head(names), Head(cells)))

\* the row_dict of a data row
row_dict(names, cells) == ZipDict(names, PadRow(cells, Len(names)), << >>)

\* the generator up to its loop: the metadata rows are skipped and the header
\* row is read and stripped; csv.Error is re-raised, a file that ends before
\* its header ends the generator
ReaderOpen ==
    /\ rpc = "start"
    /\ LET skipped == IF skip_metadata_rows < Len(csv_lines)
                      THEN skip_metadata_rows ELSE Len(csv_lines)
       IN  IF \E i \in 1..skipped : csv_lines[i].bad
           THEN /\ rpc' = "raised"
                /\ UNCHANGED <<header, line_no>>
           ELSE IF skipped = Len(csv_lines)
           THEN /\ rpc' = "returned"
                /\ line_no' = skipped
                /\ UNCHANGED header
           ELSE IF csv_lines[skipped + 1].bad
           THEN /\ rpc' = "raised"
                /\ line_no' = skipped
                /\ UNCHANGED header
           ELSE /\ rpc' = "loop"
                /\ line_no' = skipped + 1
                /\ header' = [i \in 1..Len(csv_lines[skipped + 1].cells) |->
                                 strip(csv_lines[skipped + 1].cells[i])]
    /\ UNCHANGED <<csv_lines, skip_metadata_rows, resident, handed>>
    /\ UNCHANGED <<fmt, mapping, xvars, dvars, fvars, hvars, gvars, cvars, ivars>>

\* `for row in reader`: the generator, resumed by its consumer, takes the
\* next row from csv.reader, or ends with the file
ReaderNext ==
    /\ rpc = "loop"
    /\ LET taken == TakeOne(Len(csv_lines) - line_no)
       IN  IF taken = 0
           THEN /\ rpc' = "returned"
                /\ UNCHANGED <<line_no, resident>>
           ELSE IF \E i \in (line_no + 1)..(line_no + taken) : csv_lines[i].bad
           THEN /\ rpc' = "raised"
                /\ UNCHANGED <<line_no, resident>>
           ELSE /\ rpc' = "yield"
                /\ line_no' = line_no + taken
                /\ resident' = resident \o
                       [i \in 1..taken |-> csv_lines[line_no + i].cells]
    /\ UNCHANGED <<csv_lines, skip_metadata_rows, header, handed>>
    /\ UNCHANGED <<fmt, mapping, xvars, dvars, fvars, hvars, gvars, cvars, ivars>>

\* yield row_dict: the row is padded, zipped with the header and handed to
\* the loop of process_csv_file, which holds it until it asks for the next
ReaderYield ==
    /\ rpc = "yield"
    /\ handed' = Append(handed, row_dict(header, Head(resident)))
    /\ resident' = Tail(resident)
    /\ rpc' = (IF Tail(resident) = << >> THEN "loop" ELSE "yield")
    /\ UNCHANGED <<csv_lines, skip_metadata_rows, header, line_no>>
    /\ UNCHANGED <<fmt, mapping, xvars, dvars, fvars, hvars, gvars, cvars, ivars>>

InitReader ==
    /\ csv_lines \in UNION { [1..n -> CsvLines] : n \in 0..MaxLines }
    /\ skip_metadata_rows \in 0..1
    /\ header = << >>
    /\ line_no = 0
    /\ resident = << >>
    /\ handed = << >>
    /\ rpc = "start"
    /\ ExtractorsIdle
    /\ FileIdle
    /\ ProcessFileIdle
    /\ DirectoryIdle
    /\ MapperIdle
    /\ FacilityIdIdle

NextReader == ReaderOpen \/ ReaderNext \/ ReaderYield

SpecReader == InitReader /\ [][NextReader]_vars

-----------------------------------------------------------------------------
(* Properties of stream_csv_rows (SpecReader) *)

\* C21 (streaming bound of the CSV reader): at every moment at most one data
\* row has been read from the file and not yet handed to the consumer; while
\* the generator runs, every data row read before that one has been handed
\* over.
C21_StreamingBound ==
    /\ Len(resident) <= 1
    /\ rpc \in {"loop", "yield"} =>
         Len(handed) + Len(resident) = line_no - (skip_metadata_rows + 1)

\* a header and two data rows: the first data row has been handed over and
\* the second is resident
C21_Witness ==
    /\ Len(csv_lines) = 3
    /\ skip_metadata_rows = 0
    /\ Len(handed) = 1
    /\ Len(resident) = 1
    /\ line_no = 3

-----------------------------------------------------------------------------
(* Further properties of the deduplicator (SpecDedup) *)

\* negotiated_min <= negotiated_max whenever both are present
RangeOrdered(operation) ==
    (~IsNone(operation.negotiated_min) /\ ~IsNone(operation.negotiated_max))
        => Get(operation.negotiated_min) <= Get(operation.negotiated_max)

\* C22 (the deduplicator preserves the negotiated-range invariant): when every
\* input record has negotiated_min <= negotiated_max whenever it has both,
\* every returned record has it too.
C22_RangeInvariantPreserved ==
    (dpc = "done" /\ \A i \in 1..Len(operations) : RangeOrdered(operations[i]))
        => \A k \in 1..Len(deduplicated) : RangeOrdered(deduplicated[k])

-----------------------------------------------------------------------------
(* Deduplicator harness on records that differ in the order of their codes   *)
(* and on records of equal score                                             *)

\* codes dicts with the same content in different orders: the codes of one
\* type swapped, the type keys swapped
OrderCodes ==
    { <<[type |-> S_HCPCS, codes |-> <<<<"7","0","5","5","1">>, <<"7","0","5","5","2">>>>]>>,
      <<[type |-> S_HCPCS, codes |-> <<<<"7","0","5","5","2">>, <<"7","0","5","5","1">>>>]>>,
      <<[type |-> S_RC, codes |-> <<<<"0","4","5","0">>>>],
        [type |-> S_HCPCS, codes |-> <<<<"7","0","5","5","1">>>>]>>,
      <<[type |-> S_HCPCS, codes |-> <<<<"7","0","5","5","1">>>>],
        [type |-> S_RC, codes |-> <<<<"0","4","5","0">>>>]>> }

\* (cash_price, gross_charge), in cents: two pairs of equal score, a pair
\* with neither price, and a cash price (0.40) and a gross charge (5004.00)
\* whose scores tie in exact arithmetic
OrderPrices ==
    { <<Some(5000), None>>, <<Some(5000), Some(700000)>>, <<None, None>>,
      <<Some(40), None>>, <<None, Some(500400)>> }

OrderOperations ==
    { [facility_id    |-> FacilityId,
       codes          |-> c,
       description    |-> <<"K","n","e","e"," ","M","R","I">>,
       cash_price     |-> p[1],
       gross_charge   |-> p[2],
       negotiated_min |-> Some(10000),
       negotiated_max |-> Some(20000),
       currency       |-> S_USD,
       ingested_at    |-> "utcnow"] :
      c \in OrderCodes, p \in OrderPrices }

InitDedupOrder ==
    /\ operations \in UNION { [1..n -> OrderOperations] : n \in 0..MaxOps }
    /\ deduplicated = << >>
    /\ deduplicated_again = << >>
    /\ dpc = "ready"
    /\ fmt = "csv"
    /\ mapping = FullMapping
    /\ row = << >>
    /\ emitted = << >>
    /\ xpc = "idle"
    /\ FileIdle
    /\ ProcessFileIdle
    /\ DirectoryIdle
    /\ MapperIdle
    /\ FacilityIdIdle
    /\ ReaderIdle

SpecDedupOrder == InitDedupOrder /\ [][NextDedup]_vars

-----------------------------------------------------------------------------
(* Properties of the deduplicator on these records (SpecDedupOrder) *)

\* the codes of a type in a codes dict, as a bag
CodesOfType(codes, type) ==
    LET at == {i \in 1..Len(codes) : codes[i].type = type}
    IN  IF at = {} THEN [c \in {} |-> 0]
        ELSE LET list == codes[CHOOSE i \in at : TRUE].codes
             IN  [c \in Range(list) |-> Cardinality({k \in 1..Len(list) : list[k] = c})]

\* the same description, the same code types and the same codes per type,
\* whatever the order of the types and of the codes
SameUpToOrder(a, b) ==
    /\ a.description = b.description
    /\ {a.codes[i].type : i \in 1..Len(a.codes)} = {b.codes[i].type : i \in 1..Len(b.codes)}
    /\ \A i \in 1..Len(a.codes) :
         CodesOfType(a.codes, a.codes[i].type) = CodesOfType(b.codes, a.codes[i].type)

\* C23 (group-key order-independence): two input records that are the same up
\* to the order of their type keys and of the codes of a type have the same
\* group key, so that no two returned records are the same up to that order.
C23_KeyOrderIndependent ==
    dpc = "done" =>
        /\ \A i, j \in 1..Len(operations) :
             SameUpToOrder(operations[i], operations[j])
                => GroupKey(operations[i]) = GroupKey(operations[j])
        /\ \A a, b \in 1..Len(deduplicated) :
             a # b => ~SameUpToOrder(deduplicated[a], deduplicated[b])

\* the score the claim gives a candidate, in tenths of a cent
ClaimedScore(operation) ==
    IF operation.cash_price # None THEN 1000000 + 10 * Get(operation.cash_price)
    ELSE IF operation.gross_charge # None THEN 500000 + Get(operation.gross_charge)
    ELSE 0

\* the first member of the group, in input order, among those of maximal score
FirstOfMaximalScore(key) ==
    LET first(members) ==
            CHOOSE i \in members :
                /\ \A j \in members :
                     ClaimedScore(operations[j]) <= ClaimedScore(operations[i])
                /\ \A j \in members :
                     j < i => ClaimedScore(operations[j]) < ClaimedScore(operations[i])
    IN  first(Members(key))

\* the survivors of the group have the prices of that member
SurvivorIsFirstOfMaximalScore(key) ==
    LET same(best) ==
            \A k \in Survivors(key) :
                /\ deduplicated[k].cash_price = best.cash_price
                /\ deduplicated[k].gross_charge = best.gross_charge
    IN  same(operations[FirstOfMaximalScore(key)])

ExactCrossTie(a, b) ==
    /\ ClaimedScore(a) = ClaimedScore(b)
    /\ (a.cash_price = None) # (b.cash_price = None)

-----------------------------------------------------------------------------
(* Frame and idempotence of the deduplicator (SpecDedup) *)

\* a record with its negotiated range left out
WithoutRange(operation) ==
    [operation EXCEPT !.negotiated_min = None, !.negotiated_max = None]

\* what the call returned is framed as the claim says
FramedResult ==
    dpc = "done" =>
        \A key \in InputKeys : \A k \in Survivors(key) :
            IF Cardinality(Members(key)) = 1
            THEN deduplicated[k] = operations[FirstSeen(key)]
            ELSE \E i \in Members(key) :
                    /\ \A j \in Members(key) : Score(operations[j]) <= Score(operations[i])
                    /\ WithoutRange(deduplicated[k]) = WithoutRange(operations[i])

\* C25 (frame of deduplication): a record alone in its group is returned with
\* every field unchanged; for a group of several the returned record equals a
\* candidate of maximal score in every field except negotiated_min and
\* negotiated_max; and no step changes a record of the input sequence.
C25_Frame == [] FramedResult /\ [][operations' = operations]_vars

\* a lone record beside a group of two whose survivor got a wider range than
\* it had
C25_Witness ==
    /\ dpc = "done"
    /\ Len(operations) = 3
    /\ Len(deduplicated) = 2
    /\ \E k \in 1..2 : \A i \in 1..3 : deduplicated[k] # operations[i]
    /\ \E k \in 1..2 : \E i \in 1..3 :
         /\ Cardinality(Members(GroupKey(operations[i]))) = 1
         /\ deduplicated[k] = operations[i]

\* C29 (deduplication is idempotent): the deduplicator applied to its own
\* output returns that output: the same records, in the same order, with the
\* same negotiated ranges.
C29_Idempotent == dpc = "again" => deduplicated_again = deduplicated

\* the second call was given two records, one of them a merge of two inputs
C29_Witness ==
    /\ dpc = "again"
    /\ Len(operations) = 3
    /\ Len(deduplicated) = 2
    /\ Len(deduplicated_again) = 2
    /\ \E k \in 1..2 : \A i \in 1..3 : deduplicated[k] # operations[i]

-----------------------------------------------------------------------------
(* CSVColumnMapper._find_code_columns *)

StartsWith(s, prefix) == Len(s) >= Len(prefix) /\ SubSeq(s, 1, Len(prefix)) = prefix
EndsWith(s, suffix) ==
    Len(s) >= Len(suffix) /\ SubSeq(s, Len(s) - Len(suffix) + 1, Len(s)) = suffix
\* the part of s after a prefix, before a suffix
After(s, prefix) == SubSeq(s, Len(prefix) + 1, Len(s))
Before(s, suffix) == SubSeq(s, 1, Len(s) - Len(suffix))

\* \d+
IsNumber(s) == s # << >> /\ AllDigits(s)

\* (_\d+)? up to the end
IsOptionalNumber(s) == s = << >> \/ (s[1] = "_" /\ IsNumber(Tail(s)))

\* the alternatives of the group (cpt|hcpcs|drg|icd10|rev|ndc)
CodeTypePrefixes == <<<<"c","p","t">>, <<"h","c","p","c","s">>, <<"d","r","g">>, <<"i","c","d","1","0">>, <<"r","e","v">>, <<"n","d","c">>>>

\* the prefixes of CodeTypePrefixes with which `^(...)_code(_\d+)?$` matches
SpecificPrefixes(col_lower) ==
    {k \in 1..Len(CodeTypePrefixes) :
        /\ StartsWith(col_lower, CodeTypePrefixes[k] \o <<"_","c","o","d","e">>)
        /\ IsOptionalNumber(After(col_lower, CodeTypePrefixes[k] \o <<"_","c","o","d","e">>))}

\* the names of CODE_PATTERNS in which 'type' occurs
TypePatternNames ==
    { "pipe_numbered_type", "underscore_numbered_type", "billing_code_type",
      "code_type_specific", "simple_type" }

\* the first pattern of CODE_PATTERNS, in dict order, that re.match finds at
\* the start of col_lower, with `match.group(1) if match.groups() else '0'`:
\* the digits of a numbered pattern; for the billing patterns the optional
\* group, that is None or '_' and digits; for a type-specific header its
\* prefix; for code_type and type the header itself; '0' for the two patterns
\* without a group.  None stands for "no pattern matches".
code_pattern_match(col_lower) ==
    IF /\ StartsWith(col_lower, <<"c","o","d","e","|">>)
       /\ IsNumber(After(col_lower, <<"c","o","d","e","|">>))
    THEN Some([pattern_name |-> "pipe_numbered",
               instance |-> Some(After(col_lower, <<"c","o","d","e","|">>))])
    ELSE IF /\ StartsWith(col_lower, <<"c","o","d","e","|">>)
            /\ EndsWith(After(col_lower, <<"c","o","d","e","|">>), <<"|","t","y","p","e">>)
            /\ IsNumber(Before(After(col_lower, <<"c","o","d","e","|">>), <<"|","t","y","p","e">>))
    THEN Some([pattern_name |-> "pipe_numbered_type",
               instance |-> Some(Before(After(col_lower, <<"c","o","d","e","|">>), <<"|","t","y","p","e">>))])
    ELSE IF /\ StartsWith(col_lower, <<"c","o","d","e","_">>)
            /\ IsNumber(After(col_lower, <<"c","o","d","e","_">>))
    THEN Some([pattern_name |-> "underscore_numbered",
               instance |-> Some(After(col_lower, <<"c","o","d","e","_">>))])
    ELSE IF /\ StartsWith(col_lower, <<"c","o","d","e","_">>)
            /\ EndsWith(After(col_lower, <<"c","o","d","e","_">>), <<"_","t","y","p","e">>)
            /\ IsNumber(Before(After(col_lower, <<"c","o","d","e","_">>), <<"_","t","y","p","e">>))
    THEN Some([pattern_name |-> "underscore_numbered_type",
               instance |-> Some(Before(After(col_lower, <<"c","o","d","e","_">>), <<"_","t","y","p","e">>))])
    ELSE IF /\ StartsWith(col_lower, <<"b","i","l","l","i","n","g","_","c","o","d","e">>)
            /\ IsOptionalNumber(After(col_lower, <<"b","i","l","l","i","n","g","_","c","o","d","e">>))
    THEN Some([pattern_name |-> "billing_code",
               instance |-> IF After(col_lower, <<"b","i","l","l","i","n","g","_","c","o","d","e">>) = << >> THEN None
                            ELSE Some(After(col_lower, <<"b","i","l","l","i","n","g","_","c","o","d","e">>))])
    ELSE IF /\ StartsWith(col_lower, <<"b","i","l","l","i","n","g","_","c","o","d","e","_","t","y","p","e">>)
            /\ IsOptionalNumber(After(col_lower, <<"b","i","l","l","i","n","g","_","c","o","d","e","_","t","y","p","e">>))
    THEN Some([pattern_name |-> "billing_code_type",
               instance |-> IF After(col_lower, <<"b","i","l","l","i","n","g","_","c","o","d","e","_","t","y","p","e">>) = << >> THEN None
                            ELSE Some(After(col_lower, <<"b","i","l","l","i","n","g","_","c","o","d","e","_","t","y","p","e">>))])
    ELSE IF SpecificPrefixes(col_lower) # {}
    THEN Some([pattern_name |-> "code_type_specific",
               instance |-> Some(CodeTypePrefixes[CHOOSE k \in SpecificPrefixes(col_lower) : TRUE])])
    ELSE IF StartsWith(col_lower, <<"c","o","d","e","_","i","n","f","o","r","m","a","t","i","o","n">>)
    THEN Some([pattern_name |-> "code_information", instance |-> Some(<<"0">>)])
    ELSE IF col_lower = <<"c","o","d","e">>
    THEN Some([pattern_name |-> "simple_code", instance |-> Some(<<"0">>)])
    ELSE IF col_lower \in {<<"c","o","d","e","_","t","y","p","e">>, <<"t","y","p","e">>}
    THEN Some([pattern_name |-> "simple_type", instance |-> Some(col_lower)])
    ELSE None

\* is_type = 'type' in pattern_name or 'type' in col_lower
is_type(pattern_name, col_lower) ==
    pattern_name \in TypePatternNames \/ Contains(<<"t","y","p","e">>, col_lower)

\* the loop over self.columns: code_groups after the columns, an
\* insertion-ordered dict from instance to {'code', 'type'}
RECURSIVE code_groups_of(_, _)
code_groups_of(cols, groups) ==
    IF cols = << >> THEN groups
    ELSE LET place(col, found) ==
                 IF found = None THEN groups
                 ELSE LET at == {g \in 1..Len(groups) : groups[g].instance = Get(found).instance}
                          old == IF at = {} THEN [code |-> None, type |-> None]
                                 ELSE groups[CHOOSE g \in at : TRUE].group
                          new == IF is_type(Get(found).pattern_name, lower(col))
                                 THEN [old EXCEPT !.type = Some(col)]
                                 ELSE [old EXCEPT !.code = Some(col)]
                      IN  IF at = {}
                          THEN Append(groups, [instance |-> Get(found).instance, group |-> new])
                          ELSE [g \in 1..Len(groups) |->
                                   IF g \in at THEN [groups[g] EXCEPT !.group = new]
                                   ELSE groups[g]]
         IN  code_groups_of(Tail(cols), place(Head(cols), code_pattern_match(lower(Head(cols)))))

\* sorted(code_groups.keys()) raises TypeError when it has to compare None
\* with a str, that is when None is one of two or more keys
SortRaises(groups) ==
    /\ Len(groups) >= 2
    /\ \E g \in 1..Len(groups) : groups[g].instance = None

\* instance keys compare as strings
InstanceLess(a, b) == a # None /\ b # None /\ StrLess(Get(a), Get(b))

\* the groups in the order of sorted(code_groups.keys())
RECURSIVE SortedGroups(_)
SortedGroups(groups) ==
    IF groups = << >> THEN << >>
    ELSE LET least == CHOOSE g \in 1..Len(groups) :
                          \A h \in 1..Len(groups) :
                              h # g => InstanceLess(groups[g].instance, groups[h].instance)
         IN  <<groups[least]>>
             \o SortedGroups([k \in 1..(Len(groups) - 1) |->
                                 IF k < least THEN groups[k] ELSE groups[k + 1]])

\* _find_code_columns(): the groups that have a code column, in the order of
\* their sorted instance keys, or the TypeError of sorted()
_find_code_columns(cols) ==
    LET result(groups) ==
            IF SortRaises(groups) THEN [raised |-> TRUE, groups |-> << >>]
            ELSE [raised |-> FALSE,
                  groups |-> SelectSeq(SortedGroups(groups),
                                       LAMBDA g : g.group.code # None)]
    IN  result(code_groups_of(cols, << >>))

\* header rows of code columns
CodeHeaders ==
    { <<"c","o","d","e">>, <<"c","o","d","e","_","t","y","p","e">>, <<"t","y","p","e">>, <<"C","o","d","e"," ","T","y","p","e">>,
      <<"b","i","l","l","i","n","g","_","c","o","d","e">>, <<"b","i","l","l","i","n","g","_","c","o","d","e","_","t","y","p","e">>, <<"b","i","l","l","i","n","g","_","c","o","d","e","_","2">>,
      <<"c","o","d","e","|","1">>, <<"c","o","d","e","|","1","|","t","y","p","e">>, <<"c","o","d","e","|","2">>, <<"c","o","d","e","|","1","0">>, <<"c","o","d","e","_","2","_","t","y","p","e">>,
      <<"c","p","t","_","c","o","d","e">>, <<"r","e","v","_","c","o","d","e">>, <<"c","o","d","e","_","i","n","f","o","r","m","a","t","i","o","n">>, <<"d","e","s","c","r","i","p","t","i","o","n">> }

FindCodeColumns ==
    /\ mpc = "ready"
    /\ code_groups' = _find_code_columns(columns)
    /\ mpc' = "done"
    /\ UNCHANGED <<columns, patterns, best_match>>
    /\ UNCHANGED <<fmt, mapping, xvars, dvars, fvars, hvars, gvars, ivars, rvars>>

InitCodeColumns ==
    /\ columns \in UNION { [1..n -> CodeHeaders] : n \in 0..MaxHeaders }
    /\ patterns = << >>
    /\ best_match = << >>
    /\ code_groups = << >>
    /\ mpc = "ready"
    /\ ExtractorsIdle
    /\ FileIdle
    /\ ProcessFileIdle
    /\ DirectoryIdle
    /\ FacilityIdIdle
    /\ ReaderIdle

NextCodeColumns == FindCodeColumns

SpecCodeColumns == InitCodeColumns /\ [][NextCodeColumns]_vars

\* the number a header carries, 0 for a header without one
NumberOf(col) ==
    LET digits(s) == SelectSeq(s, LAMBDA c : AllDigits(<<c>>))
    IN  IF digits(col) = << >> THEN 0 ELSE DigitsValue(digits(col))

\* C26: instance keys of code columns.  Building the code columns never
\* raises; a header row that holds `code` and `code_type`, or `billing_code`
\* and `billing_code_type`, yields one group with the first as code column and
\* the second as type column; and the groups come out in the order of the
\* numbers of their code headers, 0 for a header without a number.
C26_InstanceKeys ==
    mpc = "done" =>
        /\ ~ code_groups.raised
        /\ \A pair \in { <<<<"c","o","d","e">>, <<"c","o","d","e","_","t","y","p","e">>>>,
                          <<<<"b","i","l","l","i","n","g","_","c","o","d","e">>, <<"b","i","l","l","i","n","g","_","c","o","d","e","_","t","y","p","e">>>> } :
               (pair[1] \in ToSet(columns) /\ pair[2] \in ToSet(columns)) =>
                   \E g \in 1..Len(code_groups.groups) :
                       code_groups.groups[g].group
                           = [code |-> Some(pair[1]), type |-> Some(pair[2])]
        /\ \A g \in 1..Len(code_groups.groups), h \in 1..Len(code_groups.groups) :
               g < h => NumberOf(Get(code_groups.groups[g].group.code))
                            <= NumberOf(Get(code_groups.groups[h].group.code))

\* the headers <prefix>_code of the type-specific pattern without "type" in
\* their name
IsPrefixCodeHeader(col) ==
    /\ SpecificPrefixes(lower(col)) # {}
    /\ ~ Contains(<<"t","y","p","e">>, lower(col))

\* C27: code-type-specific prefix headers.  Every header cpt_code, hcpcs_code,
\* drg_code, icd10_code, rev_code or ndc_code of the header row is the code
\* column of a group of the discovered code columns, with or without a type
\* column.
C27_PrefixHeadersKept ==
    (mpc = "done" /\ ~ code_groups.raised) =>
        \A i \in 1..Len(columns) :
            IsPrefixCodeHeader(columns[i]) =>
                \E g \in 1..Len(code_groups.groups) :
                    code_groups.groups[g].group.code = Some(columns[i])

-----------------------------------------------------------------------------
(* The fuzzy fallback of _find_best_match (SpecMapperFuzzy) *)

\* header rows for the fuzzy loop: permutations of the words of a variant
\* (score 100), two spellings of one normalised header, a variant with one
\* more word (scores 82 and 85), a header below the threshold, an unrelated one
FuzzyHeaders ==
    { <<"p","r","i","c","e","_","c","a","s","h">>, <<"P","r","i","c","e"," ","C","a","s","h">>, <<"c","a","s","h","_","d","i","s","c","o","u","n","t","e","d">>,
      <<"s","t","a","n","d","a","r","d","_","c","h","a","r","g","e","_","d","i","s","c","o","u","n","t","e","d","_","c","a","s","h","_","p","r","i","c","e">>,
      <<"d","e","_","i","d","e","n","t","i","f","i","e","d","_","m","i","n","i","m","u","m","_","p","r","i","c","e">>, <<"m","i","n","i","m","u","m","_","d","e","_","i","d","e","n","t","i","f","i","e","d","_","u","s","d">>,
      <<"m","i","n","i","m","u","m","_","i","d","e","n","t","i","f","i","e","d","_","d","e">>, <<"s","e","l","f","_","p","a","y","_","p","r","i","c","e">>, <<"n","o","t","e","s">> }

InitMapperFuzzy ==
    /\ columns \in UNION { [1..n -> FuzzyHeaders] : n \in 0..MaxHeaders }
    /\ patterns \in ScalarFieldPatterns
    /\ best_match = << >>
    /\ code_groups = << >>
    /\ mpc = "ready"
    /\ ExtractorsIdle
    /\ FileIdle
    /\ ProcessFileIdle
    /\ DirectoryIdle
    /\ FacilityIdIdle
    /\ ReaderIdle

SpecMapperFuzzy == InitMapperFuzzy /\ [][NextMapper]_vars

\* floor of 70 x Jaccard of the word sets + 30 x fraction of the pattern
\* words contained in some column word, in exact arithmetic
ExactSimilarity(pattern, column) ==
    LET score(pattern_words, column_words) ==
            LET floor(i, u, s, n) == (70 * i * n + 30 * s * u) \div (u * n)
            IN  floor(Cardinality(pattern_words \cap column_words),
                      Cardinality(pattern_words \cup column_words),
                      Cardinality({word \in pattern_words :
                                      \E col_word \in column_words :
                                          Contains(word, col_word)}),
                      Cardinality(pattern_words))
    IN  score(ToSet(SplitOn(pattern, "_")), ToSet(SplitOn(column, "_")))

\* pattern-major, column-minor order of (pattern, column) positions
MetBefore(a, b) == a[1] < b[1] \/ (a[1] = b[1] /\ a[2] < b[2])

\* of the pairs whose score reaches the threshold, the one of the highest
\* score, the one met first among equals; None when no pair reaches it
Winner(scores) ==
    LET among(pairs) ==
            IF pairs = {} THEN None
            ELSE Some(CHOOSE a \in pairs :
                          \A b \in pairs \ {a} :
                              \/ scores[a] > scores[b]
                              \/ (scores[a] = scores[b] /\ MetBefore(a, b)))
    IN  among({pair \in DOMAIN scores : scores[pair] >= fuzzy_threshold})

\* the scores of the (pattern, header) pairs over names, the normalised
\* headers in their order
ScoresOver(names) ==
    [pair \in (1..Len(patterns)) \X (1..Len(names)) |->
        ExactSimilarity(lower(patterns[pair[1]]), names[pair[2]])]

\* C28 as claimed: without an exact match the mapper returns the header of the
\* (pattern, header) pair of the highest score among the pairs that reach the
\* threshold, the first in pattern-major, header-minor order among equals, and
\* None when no pair reaches it.
C28_FuzzyFallback_AsClaimed ==
    (mpc = "done" /\ VariantsPresent = {}) =>
        LET returned(winner) ==
                IF winner = None THEN None ELSE Some(columns[Get(winner)[2]])
        IN  best_match
              = returned(Winner(ScoresOver([i \in 1..Len(columns) |->
                                               normalize_column(columns[i])])))

\* C28 (fuzzy fallback of the column mapper): without an exact match the
\* mapper returns the candidate of the (pattern, candidate) pair of the
\* highest score among the pairs that reach the threshold, the first in
\* pattern-major, candidate-minor order among equals, and None when no pair
\* reaches it; headers that normalise to the same name are one candidate,
\* which stands where the first stands and is returned as the last is spelt.
C28_FuzzyFallback ==
    (mpc = "done" /\ VariantsPresent = {}) =>
        LET returned(candidates, winner) ==
                IF winner = None THEN None
                ELSE Some(candidates[Get(winner)[2]].value)
            over(candidates) ==
                returned(candidates,
                         Winner(ScoresOver([i \in 1..Len(candidates) |->
                                               candidates[i].key])))
        IN  best_match = over(normalized_columns(columns, << >>))

\* price_cash and cash_discounted both score 100, against the third and the
\* second variant: the later header wins on the earlier variant
C28_Witness ==
    /\ mpc = "done"
    /\ patterns = CASH_PRICE_PATTERNS
    /\ columns = <<<<"p","r","i","c","e","_","c","a","s","h">>, <<"c","a","s","h","_","d","i","s","c","o","u","n","t","e","d">>>>
    /\ best_match = Some(<<"c","a","s","h","_","d","i","s","c","o","u","n","t","e","d">>)

-----------------------------------------------------------------------------
(* The counters of the per-file result against the sink (Spec) *)

\* 'total_records' of the result dict
total_records == successful_records + failed_records

\* the records of the writeBatch calls that returned
Accepted == ConcatBatches(SelectSeq(written, LAMBDA call : call.ok))

\* C30: in every returned per-file result, total_records is the sum of
\* successful_records and failed_records, and successful_records is the
\* number of records the sink accepted in writeBatch calls that returned,
\* also when some writeBatch call raised.
C30_CountersMatchSink ==
    outcome = "returned" =>
        /\ total_records = successful_records + failed_records
        /\ successful_records = Len(Accepted)

====
